---------------------------- MODULE Spec2Model ----------------------------
(***************************************************************************)
(* A model of the tenma-serial driver (src/src/tenma_serial/tenma_dc_lib.py)*)
(* A driver object is its class (the profile) and its serial handle; the   *)
(* handle is modelled by the log of what was written to it, slept after it *)
(* and read from it, and the handles that were opened are kept with what   *)
(* became of them.  Text on the wire is a sequence of one-character      *)
(* strings, so that formatting and parsing are computed, not assumed.      *)
(* A Python float that was parsed from, or is printed as, a decimal with   *)
(* at most three fractional digits is represented by its number of         *)
(* thousandths k: it stands for the double nearest to k/1000.              *)
(***************************************************************************)
EXTENDS Integers, Sequences, FiniteSets, TLC

VARIABLES
    self_cls,   \* the class of the driver object (fixed at construction)
    ser_io,     \* what happened on self.ser: writes, sleeps and reads, in order
    call,       \* the last call made on the driver and how it ended
    handles,    \* the serial.Serial objects opened so far, in order
    self_ser,   \* self.ser: the index in handles of the driver's handle
    cli         \* the run of the command line program, if there is one

vars == <<self_cls, ser_io, call, handles, self_ser, cli>>

(***************************************************************************)
(* Bounds of the model.                                                    *)
(***************************************************************************)
\* a further call is made on the driver while its log holds fewer events
MaxLog == 2
\* serial handles are opened while fewer than MaxHandles were opened
MaxHandles == 3
\* a command line asks for at most MaxRequested things
MaxRequested == 2
\* channel arguments range over -1 .. MaxChannelArg
MaxChannelArg == 4
\* memory slot arguments range over -1 .. MaxConfArg
MaxConfArg == 6

(***************************************************************************)
(* The classes and their class attributes.                                 *)
(***************************************************************************)
Classes ==
    { "Tenma72Base", "Tenma722540", "Tenma722535", "Tenma722545", "Tenma722550",
      "Tenma722930", "Tenma722705", "Tenma722940", "Tenma7213320", "Tenma7213330" }

\* no driver object (None)
NoDriver == "None"

\* serial ports a driver is opened on
DefaultPort == "COM3"
Ports == {"COM3", "COM4"}

Tenma7213320Family == { "Tenma7213320", "Tenma7213330" }

NCHANNELS(self) == IF self \in Tenma7213320Family THEN 3 ELSE 1

NCONFS(self) == IF self \in Tenma7213320Family THEN 0 ELSE 5

MAX_MA(self) ==
    CASE self = "Tenma72Base"  -> 5000
      [] self = "Tenma722540"  -> 5000
      [] self = "Tenma722535"  -> 3000
      [] self = "Tenma722545"  -> 2000
      [] self = "Tenma722550"  -> 3000
      [] self = "Tenma722930"  -> 10000
      [] self = "Tenma722705"  -> 3100
      [] self = "Tenma722940"  -> 5000
      [] self = "Tenma7213320" -> 3000
      [] self = "Tenma7213330" -> 5000

MAX_MV(self) ==
    CASE self = "Tenma72Base"  -> 30000
      [] self = "Tenma722540"  -> 30000
      [] self = "Tenma722535"  -> 30000
      [] self = "Tenma722545"  -> 60000
      [] self = "Tenma722550"  -> 60000
      [] self = "Tenma722930"  -> 30000
      [] self = "Tenma722705"  -> 31000
      [] self = "Tenma722940"  -> 60000
      [] self = "Tenma7213320" -> 30000
      [] self = "Tenma7213330" -> 30000

SERIAL_EOL(self) == IF self \in Tenma7213320Family THEN <<"\n">> ELSE <<>>

(***************************************************************************)
(* Text: str(int), the f-string conversions and float(str).                *)
(***************************************************************************)
DigitChars == <<"0", "1", "2", "3", "4", "5", "6", "7", "8", "9">>

DigitValue(c) == CHOOSE d \in 0..9 : DigitChars[d + 1] = c

IsDigit(c) == \E d \in 0..9 : DigitChars[d + 1] = c

IsSpace(c) == c \in {" ", "\n", "\r", "\t"}

RECURSIVE NatChars(_)
NatChars(n) ==
    IF n < 10 THEN <<DigitChars[n + 1]>>
    ELSE NatChars(n \div 10) \o <<DigitChars[(n % 10) + 1]>>

\* f"{n}" for an int
IntChars(n) == IF n < 0 THEN <<"-">> \o NatChars(-n) ELSE NatChars(n)

\* the same, as a string (for messages, which are never parsed)
IntStr(n) == ToString(n)

(***************************************************************************)
(* IEEE-754 double arithmetic on thousandths.  For k > 0 let               *)
(* 2^j <= k/1000 < 2^(j+1); float(k)/1000.0 and float("k/1000") are the    *)
(* multiple N * 2^(j-52) nearest to k/1000, and Rem1000(k) is              *)
(* (k * 2^(52-j)) mod 1000: 0 when k/1000 is a double, below 500 when the  *)
(* double lies below k/1000, above 500 when it lies above (500 itself      *)
(* cannot occur, as 8 divides k * 2^(52-j) and does not divide 500).       *)
(***************************************************************************)
RECURSIVE Pow2(_)
Pow2(n) == IF n = 0 THEN 1 ELSE 2 * Pow2(n - 1)

RECURSIVE Pow2Mod1000(_)
Pow2Mod1000(n) == IF n = 0 THEN 1 ELSE (2 * Pow2Mod1000(n - 1)) % 1000

\* floor(log2(k)), k >= 1
RECURSIVE Log2(_)
Log2(k) == IF k < 2 THEN 0 ELSE 1 + Log2(k \div 2)

\* 52 - j, where 2^j <= k/1000 < 2^(j+1), k >= 1
RECURSIVE ScaleUp(_)
ScaleUp(k) == IF k >= 1000 THEN 0 ELSE 1 + ScaleUp(2 * k)

RECURSIVE ScaleDown(_)
ScaleDown(k) == IF k < 2000 THEN 0 ELSE 1 + ScaleDown(k \div 2)

BinExp(k) == IF k >= 1000 THEN ScaleDown(k) ELSE 0 - ScaleUp(k)

Rem1000(k) ==
    IF k = 0 THEN 0 ELSE ((k % 1000) * Pow2Mod1000(52 - BinExp(k))) % 1000


\* int(x * 1000) for the double x that stands for k thousandths (k >= 0):
\* x * 1000 is rounded to a double before int() truncates it, and lands
\* below k exactly when x lies below k/1000 by more than half the spacing
\* of the doubles just below k.
IntTimes1000(k) ==
    IF k = 0 THEN 0
    ELSE LET m  == Log2(k)
             mp == IF Pow2(m) = k THEN m - 1 ELSE m
             r  == Rem1000(k)
         IN  IF 0 < r /\ r < 500 /\ r > Pow2(mp - BinExp(k) - 1) THEN k - 1 ELSE k

\* the number of hundredths printed by f"{float(mv) / 1000.0:.2f}" (mv >= 0):
\* the double is rounded to two decimals, half-way cases to even
Centi(mv) ==
    LET a == mv \div 10
        b == mv % 10
        r == Rem1000(mv)
    IN  IF b < 5 THEN a
        ELSE IF b > 5 THEN a + 1
        ELSE IF r = 0 THEN (IF a % 2 = 0 THEN a ELSE a + 1)
        ELSE IF r < 500 THEN a ELSE a + 1

\* f"{float(mv) / 1000.0:.2f}"
Fmt2f(mv) ==
    LET c == Centi(mv)
    IN  NatChars(c \div 100) \o <<".", DigitChars[((c \div 10) % 10) + 1], DigitChars[(c % 10) + 1]>>

\* f"{float(ma) / 1000.0:.3f}": three decimals print k/1000 itself
Fmt3f(ma) ==
    NatChars(ma \div 1000)
        \o <<".", DigitChars[((ma \div 100) % 10) + 1], DigitChars[((ma \div 10) % 10) + 1],
             DigitChars[(ma % 10) + 1]>>

\* f"{float(m) / 1000.0}": repr() prints the shortest decimal that reads
\* back as the same double, which is m/1000 without its trailing zeros
ReprFloat(m) ==
    LET f == m % 1000
        frac == IF f = 0 THEN <<"0">>
                ELSE IF f % 100 = 0 THEN <<DigitChars[(f \div 100) + 1]>>
                ELSE IF f % 10 = 0 THEN <<DigitChars[(f \div 100) + 1], DigitChars[((f \div 10) % 10) + 1]>>
                ELSE <<DigitChars[(f \div 100) + 1], DigitChars[((f \div 10) % 10) + 1],
                       DigitChars[(f % 10) + 1]>>
    IN  NatChars(m \div 1000) \o <<".">> \o frac

\* str.strip() of the whitespace float() ignores
RECURSIVE LStrip(_)
LStrip(s) == IF s # <<>> /\ IsSpace(Head(s)) THEN LStrip(Tail(s)) ELSE s

RECURSIVE RStrip(_)
RStrip(s) ==
    IF s # <<>> /\ IsSpace(s[Len(s)]) THEN RStrip(SubSeq(s, 1, Len(s) - 1)) ELSE s

Strip(s) == RStrip(LStrip(s))

\* the value of a string of digits
RECURSIVE DigitsValue(_)
DigitsValue(s) ==
    IF s = <<>> THEN 0
    ELSE 10 * DigitsValue(SubSeq(s, 1, Len(s) - 1)) + DigitValue(s[Len(s)])

AllDigits(s) == \A i \in 1..Len(s) : IsDigit(s[i])

DotAt(s) == IF \E i \in 1..Len(s) : s[i] = "." THEN CHOOSE i \in 1..Len(s) : s[i] = "." ELSE 0

\* float(s) accepts: digits, with at most one point, at least one digit,
\* surrounded by whitespace.  (Signs, exponents, "inf" and "nan" are not in
\* the alphabet of the replies modelled here.)
FloatParses(s) ==
    LET t == Strip(s)
        d == DotAt(t)
    IN  IF d = 0 THEN t # <<>> /\ AllDigits(t)
        ELSE /\ Len(t) > 1
             /\ AllDigits(SubSeq(t, 1, d - 1))
             /\ AllDigits(SubSeq(t, d + 1, Len(t)))

\* float(s) in thousandths, for a text with at most three fractional digits
FloatMilli(s) ==
    LET t == Strip(s)
        d == DotAt(t)
        ip == IF d = 0 THEN t ELSE SubSeq(t, 1, d - 1)
        fp == IF d = 0 THEN <<>> ELSE SubSeq(t, d + 1, Len(t))
        f3 == SubSeq(fp \o <<"0", "0", "0">>, 1, 3)
    IN  1000 * DigitsValue(ip) + DigitsValue(f3)

\* the str(text) inside "could not convert string to float: ..." is not
\* modelled; the message names the failure only
FloatErrorMsg == "could not convert string to float"

(***************************************************************************)
(* Outcomes.  A call returns a value or raises; either way it has done     *)
(* some I/O on the serial handle.  r.exc = "" means a normal return.       *)
(***************************************************************************)
Ok(ret) == [exc |-> "", msg |-> "", ret |-> ret, io |-> <<>>]

Raise(exc, msg) == [exc |-> exc, msg |-> msg, ret |-> "None", io |-> <<>>]

\* statement sequencing: r2 runs after r1 unless r1 raised
Then(r1, r2) == IF r1.exc # "" THEN r1 ELSE [r2 EXCEPT !.io = r1.io \o r2.io]

WriteEv(data) == [ev |-> "write", data |-> data]
SleepEv == [ev |-> "sleep", data |-> <<"0", ".", "2">>]
ReadEv(data) == [ev |-> "read", data |-> data]

IsWrite(e) == e.ev = "write"
IsRead(e) == e.ev = "read"

\* the commands written, in order
Writes(io) == SelectSeq(io, IsWrite)
Reads(io) == SelectSeq(io, IsRead)

(***************************************************************************)
(* Tenma72Base: transport helpers and the three checks.                    *)
(***************************************************************************)
\* a variant that ends every command with a newline, whatever the class
_send_command_newline(self, command) ==
    [Ok("None") EXCEPT !.io = <<[ev |-> "write", data |-> command \o <<"\n">>],
                                [ev |-> "sleep", data |-> <<"0", ".", "2">>]>>]

\* a variant that writes and returns at once
_send_command_no_settle(self, command) ==
    [Ok("None") EXCEPT !.io = <<WriteEv(command \o SERIAL_EOL(self))>>]

\* command = command + self.SERIAL_EOL; self.ser.write(...); time.sleep(0.2)
_send_command(self, command) ==
    [Ok("None") EXCEPT !.io = <<WriteEv(command \o SERIAL_EOL(self)), SleepEv>>]

\* a variant that reads a reply of one byte and leaves the rest
_read_bytes_fixed_size(reply) ==
    LET first == SubSeq(reply, 1, IF reply = <<>> THEN 0 ELSE 1)
    IN  [Ok(first) EXCEPT !.io = <<[ev |-> "read", data |-> first]>>]

\* reads one byte at a time while ser.in_waiting > 0: everything buffered
\* (here: the device's reply) is consumed and returned as a bytearray
_read_bytes(reply) == [Ok(reply) EXCEPT !.io = <<ReadEv(reply)>>]

\* the same loop, decoding each byte as ASCII
__read_output(reply) == [Ok(reply) EXCEPT !.io = <<ReadEv(reply)>>]

\* a variant that lets the channel after the last one through
check_channel_off_by_one(self, channel) ==
    IF channel > NCHANNELS(self) + 1
    THEN Raise("TenmaError",
               "Channel CH" \o IntStr(channel) \o " not in range ("
                   \o IntStr(NCHANNELS(self)) \o " channels supported)")
    ELSE Ok("None")

\* a variant that also rejects channels below 1
check_channel_with_lower_bound(self, channel) ==
    IF channel > NCHANNELS(self) \/ channel < 1
    THEN Raise("TenmaError",
               "Channel CH" \o IntStr(channel) \o " not in range ("
                   \o IntStr(NCHANNELS(self)) \o " channels supported)")
    ELSE Ok("None")

check_channel(self, channel) ==
    IF channel > NCHANNELS(self)
    THEN Raise("TenmaError",
               "Channel CH" \o IntStr(channel) \o " not in range ("
                   \o IntStr(NCHANNELS(self)) \o " channels supported)")
    ELSE Ok("None")

\* a variant whose ceiling is exclusive
check_voltage_exclusive(self, channel, mv) ==
    IF mv >= MAX_MV(self)
    THEN Raise("TenmaError",
               "Trying to set CH" \o IntStr(channel) \o " voltage to " \o IntStr(mv)
                   \o "mV, the maximum is " \o IntStr(MAX_MV(self)) \o "mV")
    ELSE Ok("None")

check_voltage(self, channel, mv) ==
    IF mv > MAX_MV(self)
    THEN Raise("TenmaError",
               "Trying to set CH" \o IntStr(channel) \o " voltage to " \o IntStr(mv)
                   \o "mV, the maximum is " \o IntStr(MAX_MV(self)) \o "mV")
    ELSE Ok("None")

check_current(self, channel, ma) ==
    IF ma > MAX_MA(self)
    THEN Raise("TenmaError",
               "Trying to set CH" \o IntStr(channel) \o " current to " \o IntStr(ma)
                   \o "mA, the maximum is " \o IntStr(MAX_MA(self)) \o "mA")
    ELSE Ok("None")

\* float(text): the value in thousandths, or ValueError
\* a variant that takes the empty string for zero
float_empty_as_zero(text) ==
    IF text = <<>> THEN Ok(0)
    ELSE IF FloatParses(text) THEN Ok(FloatMilli(text)) ELSE Raise("ValueError", FloatErrorMsg)

float(text) ==
    IF FloatParses(text) THEN Ok(FloatMilli(text)) ELSE Raise("ValueError", FloatErrorMsg)

(***************************************************************************)
(* Command words.                                                          *)
(***************************************************************************)
W_ISET == <<"I", "S", "E", "T">>
W_VSET == <<"V", "S", "E", "T">>
W_IOUT == <<"I", "O", "U", "T">>
W_VOUT == <<"V", "O", "U", "T">>
W_SAV == <<"S", "A", "V">>
W_RCL == <<"R", "C", "L">>
W_OUT == <<"O", "U", "T">>
W_STATUS == <<"S", "T", "A", "T", "U", "S", "?">>

(***************************************************************************)
(* Tenma72Base: reading and setting.  `reply` is what the device has put   *)
(* in the input buffer by the time the driver reads.                       *)
(***************************************************************************)
Tenma72Base_read_current(self, channel, reply) ==
    Then(check_channel(self, channel),
    Then(_send_command(self, W_ISET \o IntChars(channel) \o <<"?">>),
         LET out == __read_output(reply)
             \* [:5]: at most the first five characters
             txt == SubSeq(out.ret, 1, IF Len(out.ret) < 5 THEN Len(out.ret) ELSE 5)
         IN  Then(out, float(txt))))

Tenma7213320_read_current(self, channel, reply) ==
    IF channel = 3
    THEN Raise("TenmaError", "Channel CH3 does not support reading current")
    ELSE Tenma72Base_read_current(self, channel, reply)

read_current(self, channel, reply) ==
    IF self \in Tenma7213320Family
    THEN Tenma7213320_read_current(self, channel, reply)
    ELSE Tenma72Base_read_current(self, channel, reply)

read_voltage(self, channel, reply) ==
    Then(check_channel(self, channel),
    Then(_send_command(self, W_VSET \o IntChars(channel) \o <<"?">>),
         LET out == __read_output(reply)
         IN  Then(out, float(out.ret))))

Tenma72Base_running_current(self, channel, reply) ==
    Then(check_channel(self, channel),
    Then(_send_command(self, W_IOUT \o IntChars(channel) \o <<"?">>),
         LET out == __read_output(reply)
         IN  Then(out, float(out.ret))))

Tenma7213320_running_current(self, channel, reply) ==
    IF channel = 3
    THEN Raise("TenmaError", "Channel CH3 does not support reading current")
    ELSE Tenma72Base_running_current(self, channel, reply)

running_current(self, channel, reply) ==
    IF self \in Tenma7213320Family
    THEN Tenma7213320_running_current(self, channel, reply)
    ELSE Tenma72Base_running_current(self, channel, reply)

running_voltage(self, channel, reply) ==
    Then(check_channel(self, channel),
    Then(_send_command(self, W_VOUT \o IntChars(channel) \o <<"?">>),
         LET out == __read_output(reply)
         IN  Then(out, float(out.ret))))

\* set_current calls self.read_current: the override runs on the 3-channel
\* classes
set_current(self, channel, ma, reply) ==
    Then(check_channel(self, channel),
    Then(check_current(self, channel, ma),
    Then(_send_command(self, W_ISET \o IntChars(channel) \o <<":">> \o Fmt3f(ma)),
         LET rd == read_current(self, channel, reply)
             read_milliamps == IntTimes1000(rd.ret)
         IN  Then(rd,
                  IF read_milliamps # ma
                  THEN Raise("TenmaError",
                             "Set " \o IntStr(ma) \o "mA, but read "
                                 \o IntStr(read_milliamps) \o "mA")
                  ELSE Ok(rd.ret)))))

Tenma72Base_set_voltage(self, channel, mv, reply) ==
    Then(check_channel(self, channel),
    Then(check_voltage(self, channel, mv),
    Then(_send_command(self, W_VSET \o IntChars(channel) \o <<":">> \o Fmt2f(mv)),
         LET rd == read_voltage(self, channel, reply)
             read_millivolts == IntTimes1000(rd.ret)
         IN  Then(rd,
                  IF read_millivolts # mv
                  THEN Raise("TenmaError",
                             "Set " \o IntStr(mv) \o "mV, but read "
                                 \o IntStr(read_millivolts) \o "mV")
                  ELSE Ok(rd.ret)))))

\* a variant that lets every voltage through to channel 3
Tenma7213320_set_voltage_any(self, channel, mv, reply) ==
    Tenma72Base_set_voltage(self, channel, mv, reply)

\* channel 3 takes three voltages only; then super().set_voltage
Tenma7213320_set_voltage(self, channel, mv, reply) ==
    IF channel = 3 /\ mv \notin {2500, 3300, 5000}
    THEN Raise("TenmaError", "Channel CH3 can only be set to 2500mV, 3300mV or 5000mV")
    ELSE Tenma72Base_set_voltage(self, channel, mv, reply)

set_voltage(self, channel, mv, reply) ==
    IF self \in Tenma7213320Family
    THEN Tenma7213320_set_voltage(self, channel, mv, reply)
    ELSE Tenma72Base_set_voltage(self, channel, mv, reply)

(***************************************************************************)
(* Memory, output.                                                         *)
(***************************************************************************)
save_conf(self, conf) ==
    IF conf > NCONFS(self)
    THEN Raise("TenmaError",
               "Trying to set M" \o IntStr(conf) \o " with only "
                   \o IntStr(NCONFS(self)) \o " slots")
    ELSE _send_command(self, W_SAV \o IntChars(conf))

\* the command is the plain string "RCL{confg}", not an f-string
recall_conf(self, conf) ==
    IF conf > NCONFS(self)
    THEN Raise("TenmaError",
               "Trying to recall M" \o IntStr(conf) \o " with only "
                   \o IntStr(NCONFS(self)) \o " confs")
    ELSE _send_command(self, W_RCL \o <<"{", "c", "o", "n", "f", "g", "}">>)

\* channel = <<>> stands for None, <<c>> for the channel c
Tenma72Base_on(self) == _send_command(self, W_OUT \o <<"1">>)

Tenma72Base_off(self) == _send_command(self, W_OUT \o <<"0">>)

Tenma7213320_on(self, channel) ==
    IF channel = <<>>
    THEN _send_command(self, W_OUT \o <<"1", "2", ":", "1">>)
    ELSE Then(check_channel(self, channel[1]),
              _send_command(self, W_OUT \o IntChars(channel[1]) \o <<":", "1">>))

Tenma7213320_off(self, channel) ==
    IF channel = <<>>
    THEN _send_command(self, W_OUT \o <<"1", "2", ":", "0">>)
    ELSE Then(check_channel(self, channel[1]),
              _send_command(self, W_OUT \o IntChars(channel[1]) \o <<":", "0">>))

\* self.off() as save_conf_flow calls it
off(self) ==
    IF self \in Tenma7213320Family THEN Tenma7213320_off(self, <<>>) ELSE Tenma72Base_off(self)

\* a compound save that goes on after a rejected recall
save_conf_flow_ignoring_recall(self, conf, channel, rv, rc, rsv, rsc) ==
    Then(off(self),
         LET volt == read_voltage(self, channel, rv)
         IN  Then(volt,
         LET curr == read_current(self, channel, rc)
         IN  Then(curr,
             LET rcl == recall_conf(self, conf)
             IN  Then(IF rcl.exc # "" THEN Ok("None") ELSE rcl,
                 Then(set_voltage(self, channel, IntTimes1000(volt.ret), rsv),
                 Then(set_current(self, channel, IntTimes1000(curr.ret), rsc),
                      save_conf(self, conf)))))))

\* the compound save: rv and rc are the replies to the two queries made
\* before the recall, rsv and rsc the replies to the two read-backs
save_conf_flow(self, conf, channel, rv, rc, rsv, rsc) ==
    Then(off(self),
         LET volt == read_voltage(self, channel, rv)
         IN  Then(volt,
         LET curr == read_current(self, channel, rc)
         IN  Then(curr,
             Then(recall_conf(self, conf),
             Then(set_voltage(self, channel, IntTimes1000(volt.ret), rsv),
             Then(set_current(self, channel, IntTimes1000(curr.ret), rsc),
                  save_conf(self, conf)))))))

(***************************************************************************)
(* Status.  A reply is a sequence of bytes (0..255).                       *)
(***************************************************************************)
\* status & mask, for a mask with the single bit 2^bit
BitAnd(status, bit) == ((status \div Pow2(bit)) % 2) * Pow2(bit)

\* class TrackingModeType(IntEnum): Independent = 0, TrackingSeries = 1,
\* TrackingParallel = 2; the call TrackingModeType(v) raises for any other v
TrackingModeType(v) ==
    IF v \in {0, 1, 2} THEN Ok(v)
    ELSE Raise("ValueError", IntStr(v) \o " is not a valid TrackingModeType")

\* Mode(...), with the dataclass defaults for what is not passed
Mode(ch1, ch2, tracking, beep, lock, out1, out2) ==
    [ch1_mode |-> ch1, ch2_mode |-> ch2, tracking_mode |-> tracking, beep_enabled |-> beep,
     lock_enabled |-> lock, out1_enabled |-> out1, out2_enabled |-> out2]

Tenma72Base_get_status(self, reply) ==
    Then(_send_command(self, W_STATUS),
         LET status_bytes == _read_bytes(reply)
         IN  Then(status_bytes,
             IF reply = <<>> THEN Raise("IndexError", "bytearray index out of range")
             ELSE LET status == reply[1]
                      ch1mode == BitAnd(status, 0)
                      ch2mode == BitAnd(status, 1)
                      tracking == (BitAnd(status, 2) + BitAnd(status, 3)) \div 4
                      beep == BitAnd(status, 4)
                      lock == BitAnd(status, 5)
                      out == BitAnd(status, 6)
                      tm == TrackingModeType(tracking)
                  IN  Then(tm,
                           Ok(Mode(IF ch1mode # 0 THEN "C.V" ELSE "C.C",
                                   IF ch2mode # 0 THEN "C.V" ELSE "C.C",
                                   tm.ret, beep # 0, lock # 0, out # 0, FALSE)))))

Tenma7213320_get_status(self, reply) ==
    Then(_send_command(self, W_STATUS),
         LET status_bytes == _read_bytes(reply)
         IN  Then(status_bytes,
             IF reply = <<>> THEN Raise("IndexError", "bytearray index out of range")
             ELSE LET status == reply[1]
                      ch1mode == BitAnd(status, 0)
                      ch2mode == BitAnd(status, 1)
                      tracking == (BitAnd(status, 2) + BitAnd(status, 3)) \div 4
                      out1 == BitAnd(status, 6)
                      out2 == BitAnd(status, 7)
                      tm == TrackingModeType(tracking)
                  IN  Then(tm,
                           Ok(Mode(IF ch1mode # 0 THEN "C.V" ELSE "C.C",
                                   IF ch2mode # 0 THEN "C.V" ELSE "C.C",
                                   tm.ret, FALSE, FALSE, out1 # 0, out2 # 0)))))

get_status(self, reply) ==
    IF self \in Tenma7213320Family
    THEN Tenma7213320_get_status(self, reply)
    ELSE Tenma72Base_get_status(self, reply)

(***************************************************************************)
(* Stepping: not implemented by Tenma72Base, implemented by Tenma7213320.  *)
(***************************************************************************)
NotSupported == Raise("NotImplementedError", "Not supported by all models")

W_VASTEP == <<"V", "A", "S", "T", "E", "P">>
W_VASTOP == <<"V", "A", "S", "T", "O", "P">>
W_IASTEP == <<"I", "A", "S", "T", "E", "P">>
W_IASTOP == <<"I", "A", "S", "T", "O", "P">>
W_VSTEP == <<"V", "S", "T", "E", "P">>
W_ISTEP == <<"I", "S", "T", "E", "P">>
W_VUP == <<"V", "U", "P">>
W_VDOWN == <<"V", "D", "O", "W", "N">>
W_IUP == <<"I", "U", "P">>
W_IDOWN == <<"I", "D", "O", "W", "N">>

start_auto_voltage_step(self, channel, start_millivolts, stop_millivolts, step_millivolts, step_time) ==
    IF self \notin Tenma7213320Family THEN NotSupported
    ELSE
    Then(check_channel(self, channel),
    Then(check_voltage(self, channel, stop_millivolts),
         IF step_millivolts > stop_millivolts
         THEN Raise("TenmaError",
                    "Channel CH" \o IntStr(channel) \o " step voltage " \o IntStr(step_millivolts)
                        \o "V higher than stop voltage " \o IntStr(stop_millivolts) \o "V")
         ELSE _send_command(self,
                  W_VASTEP \o IntChars(channel) \o <<":">> \o ReprFloat(start_millivolts)
                      \o <<",">> \o ReprFloat(stop_millivolts) \o <<",">>
                      \o ReprFloat(step_millivolts) \o <<",">> \o IntChars(step_time))))

stop_auto_voltage_step(self, channel) ==
    IF self \notin Tenma7213320Family THEN NotSupported
    ELSE Then(check_channel(self, channel), _send_command(self, W_VASTOP \o IntChars(channel)))

start_auto_current_step(self, channel, start_milliamps, stop_milliamps, step_milliamps, step_time) ==
    IF self \notin Tenma7213320Family THEN NotSupported
    ELSE
    Then(check_channel(self, channel),
    Then(check_current(self, channel, stop_milliamps),
         IF step_milliamps > stop_milliamps
         THEN Raise("TenmaError",
                    "Channel CH" \o IntStr(channel) \o " step current " \o IntStr(step_milliamps)
                        \o "mA higher than stop current " \o IntStr(stop_milliamps) \o "mA")
         ELSE _send_command(self,
                  W_IASTEP \o IntChars(channel) \o <<":">> \o ReprFloat(start_milliamps)
                      \o <<",">> \o ReprFloat(stop_milliamps) \o <<",">>
                      \o ReprFloat(step_milliamps) \o <<",">> \o IntChars(step_time))))

stop_auto_current_step(self, channel) ==
    IF self \notin Tenma7213320Family THEN NotSupported
    ELSE Then(check_channel(self, channel), _send_command(self, W_IASTOP \o IntChars(channel)))

set_manual_voltage_step(self, channel, step_millivolts) ==
    IF self \notin Tenma7213320Family THEN NotSupported
    ELSE Then(check_channel(self, channel),
         Then(check_voltage(self, channel, step_millivolts),
              _send_command(self, W_VSTEP \o IntChars(channel) \o <<":">> \o ReprFloat(step_millivolts))))

step_voltage_up(self, channel) ==
    IF self \notin Tenma7213320Family THEN NotSupported
    ELSE Then(check_channel(self, channel), _send_command(self, W_VUP \o IntChars(channel)))

step_voltage_down(self, channel) ==
    IF self \notin Tenma7213320Family THEN NotSupported
    ELSE Then(check_channel(self, channel), _send_command(self, W_VDOWN \o IntChars(channel)))

set_manual_current_step(self, channel, step_milliamps) ==
    IF self \notin Tenma7213320Family THEN NotSupported
    ELSE Then(check_channel(self, channel),
         Then(check_current(self, channel, step_milliamps),
              _send_command(self, W_ISTEP \o IntChars(channel) \o <<":">> \o ReprFloat(step_milliamps))))

step_current_up(self, channel) ==
    IF self \notin Tenma7213320Family THEN NotSupported
    ELSE Then(check_channel(self, channel), _send_command(self, W_IUP \o IntChars(channel)))

step_current_down(self, channel) ==
    IF self \notin Tenma7213320Family THEN NotSupported
    ELSE Then(check_channel(self, channel), _send_command(self, W_IDOWN \o IntChars(channel)))

(***************************************************************************)
(* Protection, beep, lock and tracking.                                    *)
(***************************************************************************)
\* enable_flag = 1 if enable else 0
EnableFlag(enable) == IF enable THEN <<"1">> ELSE <<"0">>

set_ocp(self, enable) ==
    IF self \in Tenma7213320Family
    THEN Raise("NotImplementedError", "This model does not support OCP")
    ELSE _send_command(self, <<"O", "C", "P">> \o EnableFlag(enable))

set_ovp(self, enable) ==
    IF self \in Tenma7213320Family
    THEN Raise("NotImplementedError", "This model does not support OVP")
    ELSE _send_command(self, <<"O", "V", "P">> \o EnableFlag(enable))

set_beep(self, enable) == _send_command(self, <<"B", "E", "E", "P">> \o EnableFlag(enable))

\* a set_lock that every class implements
set_lock_by_every_class(self, enable) == _send_command(self, <<"L", "O", "C", "K">> \o EnableFlag(enable))

set_lock(self, enable) ==
    IF self \in Tenma7213320Family
    THEN _send_command(self, <<"L", "O", "C", "K">> \o EnableFlag(enable))
    ELSE NotSupported

set_tracking(self, tracking_mode) ==
    IF self \in Tenma7213320Family
    THEN _send_command(self, <<"T", "R", "A", "C", "K">> \o IntChars(tracking_mode))
    ELSE NotSupported

(***************************************************************************)
(* Identification.                                                         *)
(***************************************************************************)
\* MATCH_STR of each class
MATCH_STR(cls) ==
    CASE cls = "Tenma72Base" -> << <<>> >>
      [] cls = "Tenma722540" -> << <<"7", "2", "-", "2", "5", "4", "0">> >>
      [] cls = "Tenma722535" -> << <<"7", "2", "-", "2", "5", "3", "5">> >>
      [] cls = "Tenma722545" -> << <<"7", "2", "-", "2", "5", "4", "5">> >>
      [] cls = "Tenma722550" -> << <<"7", "2", "-", "2", "5", "5", "0">>,
                                   <<"K", "O", "R", "A", "D", "K", "A", "6", "0", "0", "3", "P">> >>
      [] cls = "Tenma722930" -> << <<"7", "2", "-", "2", "9", "3", "0">> >>
      [] cls = "Tenma722705" -> << <<"7", "2", "-", "2", "7", "0", "5">> >>
      [] cls = "Tenma722940" -> << <<"7", "2", "-", "2", "9", "4", "0">> >>
      [] cls = "Tenma7213320" -> << <<"7", "2", "-", "1", "3", "3", "2", "0">> >>
      [] cls = "Tenma7213330" -> << <<"7", "2", "-", "1", "3", "3", "3", "0">> >>

\* cls.__subclasses__(): the classes declared with cls as their base, in the
\* order of their declaration
Subclasses(cls) ==
    CASE cls = "Tenma72Base" ->
             << "Tenma722540", "Tenma722535", "Tenma722545", "Tenma722550", "Tenma722930",
                "Tenma722705", "Tenma722940", "Tenma7213320" >>
      [] cls = "Tenma7213320" -> << "Tenma7213330" >>
      [] OTHER -> <<>>

\* the classes in the order of their declaration: a class before the
\* classes derived from it
find_subclasses_in_declaration_order(cls) ==
    LET subs == Subclasses(cls)
        F[i \in 0..Len(subs)] ==
            IF i = 0 THEN <<>> ELSE F[i - 1] \o <<subs[i]>> \o Subclasses(subs[i])
    IN  F[Len(subs)]

\* for subclass in cls.__subclasses__(): yield from
\* find_subclasses_recursively(subclass); yield subclass
RECURSIVE find_subclasses_recursively(_)
find_subclasses_recursively(cls) ==
    LET subs == Subclasses(cls)
        F[i \in 0..Len(subs)] ==
            IF i = 0 THEN <<>>
            ELSE F[i - 1] \o find_subclasses_recursively(subs[i]) \o <<subs[i]>>
    IN  F[Len(subs)]

\* match_string in ver
Contains(ver, match_string) ==
    \E i \in 0..(Len(ver) - Len(match_string)) :
        SubSeq(ver, i + 1, i + Len(match_string)) = match_string

\* for match_string in cls.MATCH_STR: if match_string in ver
Matches(cls, ver) ==
    \E k \in 1..Len(MATCH_STR(cls)) : Contains(ver, MATCH_STR(cls)[k])

\* get_version(serial_eol): the query with the given terminator (and the
\* class's own after it), what was read is returned as it is
get_version(self, serial_eol, reply) ==
    Then(_send_command(self, <<"*", "I", "D", "N", "?">> \o serial_eol), __read_output(reply))

DetectionWarning == "Could not detect Tenma power supply model, assuming 72_2545"

\* an identification that asks a second time whatever the first reply was
instantiate_asking_twice(device, reply1, reply2) ==
    LET first == get_version("Tenma72Base", <<>>, reply1)
        again == get_version("Tenma72Base", <<"\n">>, reply2)
        found == find_subclasses_recursively("Tenma72Base")
        hit == { i \in 1..Len(found) : Matches(found[i], again.ret) }
    IN  Then(first,
        Then(again,
             IF hit # {}
             THEN Ok([cls |-> found[CHOOSE i \in hit : \A j \in hit : i <= j], printed |-> <<>>])
             ELSE Ok([cls |-> "Tenma722545", printed |-> <<DetectionWarning>>])))

\* an identification that assumes the defaults of the base class, a
\* 72-2540, when no class matches
instantiate_assuming_722540(device, reply1, reply2) ==
    LET first == get_version("Tenma72Base", <<>>, reply1)
        again == IF first.ret = <<>> THEN get_version("Tenma72Base", <<"\n">>, reply2)
                 ELSE Ok(first.ret)
        found == find_subclasses_recursively("Tenma72Base")
        hit == { i \in 1..Len(found) : Matches(found[i], again.ret) }
    IN  Then(first,
        Then(again,
             IF hit # {}
             THEN Ok([cls |-> found[CHOOSE i \in hit : \A j \in hit : i <= j], printed |-> <<>>])
             ELSE Ok([cls |-> "Tenma722540", printed |-> <<DetectionWarning>>])))

\* instantiate_tenma_class_from_device_response: the base class asks for the
\* version, once more with a newline if nothing came; the first class, in
\* the order of find_subclasses_recursively, one of whose MATCH_STR is in
\* the version is returned, Tenma722545 with a printed warning if none.
\* The result is the class of the driver and what was printed.
instantiate_tenma_class_from_device_response(device, reply1, reply2) ==
    LET first == get_version("Tenma72Base", <<>>, reply1)
        again == IF first.ret = <<>> THEN get_version("Tenma72Base", <<"\n">>, reply2)
                 ELSE Ok(first.ret)
        found == find_subclasses_recursively("Tenma72Base")
        hit == { i \in 1..Len(found) : Matches(found[i], again.ret) }
    IN  Then(first,
        Then(again,
             IF hit # {}
             THEN Ok([cls |-> found[CHOOSE i \in hit : \A j \in hit : i <= j], printed |-> <<>>])
             ELSE Ok([cls |-> "Tenma722545", printed |-> <<DetectionWarning>>])))

(***************************************************************************)
(* The arguments and the device replies the model draws from.              *)
(***************************************************************************)
ChannelArgs == -1..MaxChannelArg

ConfArgs == -1..MaxConfArg

\* 1005 is no multiple of 10 mV; 2010 is one whose double times 1000 lies
\* below 2010
MvArgs(self) == {0, 1000, 1005, 2010, 2500, 3300, 5000, MAX_MV(self), MAX_MV(self) + 1}

\* 1001: its double times 1000 lies below 1001
MaArgs(self) == {0, 1000, 1001, MAX_MA(self), MAX_MA(self) + 1}

\* replies to a numeric query: nothing, a voltage, a current, a current with
\* the stray sixth byte of the 72-2550, a reply ended by a newline, no number
NumReplies ==
    { <<>>,
      <<"0", "5", ".", "0", "0">>,
      <<"0", "2", ".", "0", "1">>,
      <<"1", ".", "0", "0", "1">>,
      <<"1", ".", "0", "0", "0", "K">>,
      <<"3", ".", "3", "0", "\n">>,
      <<"K">> }

ColonAt(s) == IF \E i \in 1..Len(s) : s[i] = ":" THEN CHOOSE i \in 1..Len(s) : s[i] = ":" ELSE 0

\* the value a set command carries: the text after the colon, without the
\* line terminator
ValueWritten(data) == RStrip(SubSeq(data, ColonAt(data) + 1, Len(data)))

\* replies to the read-back of a set command that wrote `data`: the value
\* written, nothing, the value followed by a stray byte, another value
SetReplies(data) ==
    { ValueWritten(data), <<>>, ValueWritten(data) \o <<"K">>, <<"0", ".", "5", "0", "0">> }

\* replies to STATUS?: nothing, any one byte, a byte followed by a newline
StatusReplies == {<<>>} \cup { <<b>> : b \in 0..255 } \cup { <<b, 10>> : b \in {0, 65} }

\* what the command written just before the last query wrote
SetBeforeQuery(io) == Writes(io)[Len(Writes(io)) - 1].data

\* replies to the two queries save_conf_flow makes before the recall
FlowVoltReplies ==
    { <<>>, <<"0", "5", ".", "0", "0">>, <<"0", "2", ".", "0", "1">>, <<"9", "9", ".", "9", "9">> }

FlowCurrReplies == { <<>>, <<"1", ".", "0", "0", "1">>, <<"1", ".", "0", "0", "0", "K">> }

\* the values of the stepping arguments, for a ceiling `max`
StartArgs(max) == {0, max + 1}
StopArgs(max) == {1000, max + 1}
StepArgs(max) == {10, 2000}
ManualStepArgs(max) == {10, max, max + 1}
StepTimeArgs == {1}

\* what a device answers to the version query: nothing, the name of a model
\* between a maker and a firmware version, the name a KORAD unit gives,
\* two names in one answer, and answers that name no model
IdnReplies ==
    {<<>>, <<"H", "E", "L", "L", "O">>, <<"\n">>, <<"K", "O", "R", "A", "D", "K", "A", "6", "0", "0", "3", "P", "V", "2", ".", "0">>}
        \cup { <<"T", "E", "N", "M", "A", " ">> \o MATCH_STR(c)[1] \o <<" ", "V", "2", ".", "0">> : c \in Classes \ {"Tenma72Base"} }
        \cup { MATCH_STR(a)[1] \o <<" ">> \o MATCH_STR(b)[1] :
                   a, b \in {"Tenma722540", "Tenma722550", "Tenma7213320", "Tenma7213330"} }

\* an optional channel: <<>> is None
OptChannelArgs == {<<>>} \cup { <<c>> : c \in ChannelArgs }

\* the device replies only to a query that is written: `dry` is the call
\* against a silent device
Asked(dry) == Reads(dry.io) # <<>>

RepliesIf(asked, S) == IF asked THEN S ELSE {<<>>}

(***************************************************************************)
(* The state machine: one action per public method, each a whole call.     *)
(***************************************************************************)
\* no command line program runs: the driver is used as a library
NoCli == [pc |-> "none"]

\* a serial.Serial object: its port, whether it is open, whether a driver
\* object refers to it, and how many handles were open and referred to when
\* it was opened
Handle(port, beside) == [port |-> port, open |-> TRUE, held |-> TRUE, beside |-> beside]

\* the handles that are open and that a driver object refers to
OpenHeld(hs) == { i \in 1..Len(hs) : hs[i].open /\ hs[i].held }

\* either a driver was constructed directly, cls(port), which opens its
\* handle, or there is no driver yet and identification will make one
Init ==
    /\ self_cls \in Classes \cup {NoDriver}
    /\ ser_io = <<>>
    /\ call = [op |-> "__init__", args |-> <<>>, replies |-> <<>>, exc |-> "", msg |-> "",
               ret |-> "None", before |-> 0]
    /\ handles = IF self_cls = NoDriver THEN <<>> ELSE <<Handle(DefaultPort, 0)>>
    /\ self_ser = IF self_cls = NoDriver THEN 0 ELSE 1
    /\ cli = NoCli

\* a further call is made while the log is short.  A call that left the log
\* as it was (a refused call) has changed nothing of the driver: the calls
\* that can follow it are the calls that can follow the state before it,
\* and they are made from there
\* A call is made on a driver that exists and whose port is open;
\* constructing, rebinding and closing do no I/O by design.
CanCall ==
    /\ self_cls \in Classes
    /\ handles[self_ser].open
    /\ Len(ser_io) < MaxLog
    /\ (call.op \in {"__init__", "set_port", "close"} \/ Len(ser_io) > call.before)

\* the call `op(args)` ends as r, the device having replied `replies`
Finish(op, args, replies, r) ==
    /\ ser_io' = ser_io \o r.io
    /\ call' = [op |-> op, args |-> args, replies |-> replies, exc |-> r.exc, msg |-> r.msg,
                ret |-> r.ret, before |-> Len(ser_io)]
    /\ UNCHANGED <<self_cls, handles, self_ser, cli>>

CheckChannel ==
    /\ CanCall
    /\ \E channel \in ChannelArgs :
           Finish("check_channel", <<channel>>, <<>>, check_channel(self_cls, channel))

CheckVoltage ==
    /\ CanCall
    /\ \E channel \in ChannelArgs, mv \in MvArgs(self_cls) :
           Finish("check_voltage", <<channel, mv>>, <<>>, check_voltage(self_cls, channel, mv))

CheckCurrent ==
    /\ CanCall
    /\ \E channel \in ChannelArgs, ma \in MaArgs(self_cls) :
           Finish("check_current", <<channel, ma>>, <<>>, check_current(self_cls, channel, ma))

ReadVoltage ==
    /\ CanCall
    /\ \E channel \in ChannelArgs :
           \E reply \in RepliesIf(Asked(read_voltage(self_cls, channel, <<>>)), NumReplies) :
               Finish("read_voltage", <<channel>>, <<reply>>, read_voltage(self_cls, channel, reply))

ReadCurrent ==
    /\ CanCall
    /\ \E channel \in ChannelArgs :
           \E reply \in RepliesIf(Asked(read_current(self_cls, channel, <<>>)), NumReplies) :
               Finish("read_current", <<channel>>, <<reply>>, read_current(self_cls, channel, reply))

RunningVoltage ==
    /\ CanCall
    /\ \E channel \in ChannelArgs :
           \E reply \in RepliesIf(Asked(running_voltage(self_cls, channel, <<>>)), NumReplies) :
               Finish("running_voltage", <<channel>>, <<reply>>,
                      running_voltage(self_cls, channel, reply))

RunningCurrent ==
    /\ CanCall
    /\ \E channel \in ChannelArgs :
           \E reply \in RepliesIf(Asked(running_current(self_cls, channel, <<>>)), NumReplies) :
               Finish("running_current", <<channel>>, <<reply>>,
                      running_current(self_cls, channel, reply))

SetVoltage ==
    /\ CanCall
    /\ \E channel \in ChannelArgs, mv \in MvArgs(self_cls) :
           LET dry == set_voltage(self_cls, channel, mv, <<>>)
           IN  \E reply \in IF Asked(dry) THEN SetReplies(SetBeforeQuery(dry.io)) ELSE {<<>>} :
                   Finish("set_voltage", <<channel, mv>>, <<reply>>,
                          set_voltage(self_cls, channel, mv, reply))

SetCurrent ==
    /\ CanCall
    /\ \E channel \in ChannelArgs, ma \in MaArgs(self_cls) :
           LET dry == set_current(self_cls, channel, ma, <<>>)
           IN  \E reply \in IF Asked(dry) THEN SetReplies(SetBeforeQuery(dry.io)) ELSE {<<>>} :
                   Finish("set_current", <<channel, ma>>, <<reply>>,
                          set_current(self_cls, channel, ma, reply))

SaveConf ==
    /\ CanCall
    /\ \E conf \in ConfArgs : Finish("save_conf", <<conf>>, <<>>, save_conf(self_cls, conf))

RecallConf ==
    /\ CanCall
    /\ \E conf \in ConfArgs : Finish("recall_conf", <<conf>>, <<>>, recall_conf(self_cls, conf))

GetStatus ==
    /\ CanCall
    /\ \E reply \in StatusReplies :
           Finish("get_status", <<>>, <<reply>>, get_status(self_cls, reply))

\* Tenma72Base.on() and off() take no channel
On ==
    /\ CanCall
    /\ \E channel \in OptChannelArgs :
           /\ self_cls \notin Tenma7213320Family => channel = <<>>
           /\ Finish("on", channel, <<>>,
                     IF self_cls \in Tenma7213320Family
                     THEN Tenma7213320_on(self_cls, channel) ELSE Tenma72Base_on(self_cls))

Off ==
    /\ CanCall
    /\ \E channel \in OptChannelArgs :
           /\ self_cls \notin Tenma7213320Family => channel = <<>>
           /\ Finish("off", channel, <<>>,
                     IF self_cls \in Tenma7213320Family
                     THEN Tenma7213320_off(self_cls, channel) ELSE Tenma72Base_off(self_cls))

SaveConfFlow ==
    /\ CanCall
    /\ \E conf \in ConfArgs, channel \in ChannelArgs :
           LET flow(rv, rc, rsv, rsc) == save_conf_flow(self_cls, conf, channel, rv, rc, rsv, rsc)
               asked(r) == Len(Reads(r.io))
           IN  \E rv \in RepliesIf(asked(flow(<<>>, <<>>, <<>>, <<>>)) >= 1, FlowVoltReplies) :
               \E rc \in RepliesIf(asked(flow(rv, <<>>, <<>>, <<>>)) >= 2, FlowCurrReplies) :
               \E rsv \in IF asked(flow(rv, rc, <<>>, <<>>)) >= 3
                          THEN SetReplies(SetBeforeQuery(flow(rv, rc, <<>>, <<>>).io)) ELSE {<<>>} :
               \E rsc \in IF asked(flow(rv, rc, rsv, <<>>)) >= 4
                          THEN SetReplies(SetBeforeQuery(flow(rv, rc, rsv, <<>>).io)) ELSE {<<>>} :
                   Finish("save_conf_flow", <<conf, channel>>, <<rv, rc, rsv, rsc>>,
                          flow(rv, rc, rsv, rsc))

StartAutoVoltageStep ==
    /\ CanCall
    /\ \E channel \in ChannelArgs, start \in StartArgs(MAX_MV(self_cls)),
          stop \in StopArgs(MAX_MV(self_cls)), step \in StepArgs(MAX_MV(self_cls)),
          step_time \in StepTimeArgs :
           Finish("start_auto_voltage_step", <<channel, start, stop, step, step_time>>, <<>>,
                  start_auto_voltage_step(self_cls, channel, start, stop, step, step_time))

StopAutoVoltageStep ==
    /\ CanCall
    /\ \E channel \in ChannelArgs :
           Finish("stop_auto_voltage_step", <<channel>>, <<>>,
                  stop_auto_voltage_step(self_cls, channel))

StartAutoCurrentStep ==
    /\ CanCall
    /\ \E channel \in ChannelArgs, start \in StartArgs(MAX_MA(self_cls)),
          stop \in StopArgs(MAX_MA(self_cls)), step \in StepArgs(MAX_MA(self_cls)),
          step_time \in StepTimeArgs :
           Finish("start_auto_current_step", <<channel, start, stop, step, step_time>>, <<>>,
                  start_auto_current_step(self_cls, channel, start, stop, step, step_time))

StopAutoCurrentStep ==
    /\ CanCall
    /\ \E channel \in ChannelArgs :
           Finish("stop_auto_current_step", <<channel>>, <<>>,
                  stop_auto_current_step(self_cls, channel))

SetManualVoltageStep ==
    /\ CanCall
    /\ \E channel \in ChannelArgs, step \in ManualStepArgs(MAX_MV(self_cls)) :
           Finish("set_manual_voltage_step", <<channel, step>>, <<>>,
                  set_manual_voltage_step(self_cls, channel, step))

StepVoltageUp ==
    /\ CanCall
    /\ \E channel \in ChannelArgs :
           Finish("step_voltage_up", <<channel>>, <<>>, step_voltage_up(self_cls, channel))

StepVoltageDown ==
    /\ CanCall
    /\ \E channel \in ChannelArgs :
           Finish("step_voltage_down", <<channel>>, <<>>, step_voltage_down(self_cls, channel))

SetManualCurrentStep ==
    /\ CanCall
    /\ \E channel \in ChannelArgs, step \in ManualStepArgs(MAX_MA(self_cls)) :
           Finish("set_manual_current_step", <<channel, step>>, <<>>,
                  set_manual_current_step(self_cls, channel, step))

StepCurrentUp ==
    /\ CanCall
    /\ \E channel \in ChannelArgs :
           Finish("step_current_up", <<channel>>, <<>>, step_current_up(self_cls, channel))

StepCurrentDown ==
    /\ CanCall
    /\ \E channel \in ChannelArgs :
           Finish("step_current_down", <<channel>>, <<>>, step_current_down(self_cls, channel))

SetOcp ==
    /\ CanCall
    /\ \E enable \in BOOLEAN : Finish("set_ocp", <<enable>>, <<>>, set_ocp(self_cls, enable))

SetOvp ==
    /\ CanCall
    /\ \E enable \in BOOLEAN : Finish("set_ovp", <<enable>>, <<>>, set_ovp(self_cls, enable))

SetBeep ==
    /\ CanCall
    /\ \E enable \in BOOLEAN : Finish("set_beep", <<enable>>, <<>>, set_beep(self_cls, enable))

SetLock ==
    /\ CanCall
    /\ \E enable \in BOOLEAN : Finish("set_lock", <<enable>>, <<>>, set_lock(self_cls, enable))

SetTracking ==
    /\ CanCall
    /\ \E tracking_mode \in 0..2 :
           Finish("set_tracking", <<tracking_mode>>, <<>>, set_tracking(self_cls, tracking_mode))

\* get_version(serial_eol): the terminator is the caller's, "" by default
GetVersion ==
    /\ CanCall
    /\ \E serial_eol \in {<<>>, <<"\n">>}, reply \in IdnReplies :
           Finish("get_version", <<serial_eol>>, <<reply>>,
                  get_version(self_cls, serial_eol, reply))

\* instantiate_tenma_class_from_device_response(device), called while there
\* is no driver: Tenma72Base(device) opens a handle and asks over it,
\* power_supply.close() closes it, and cls(device) opens the handle of the
\* driver that is returned
Identify ==
    /\ self_cls = NoDriver
    /\ Len(handles) + 2 <= MaxHandles
    /\ \E device \in Ports, reply1 \in IdnReplies :
       \E reply2 \in RepliesIf(reply1 = <<>>, IdnReplies) :
           LET r == instantiate_tenma_class_from_device_response(device, reply1, reply2)
               probe == [Handle(device, Cardinality(OpenHeld(handles)))
                            EXCEPT !.open = FALSE, !.held = FALSE]
               bound == Handle(device, Cardinality(OpenHeld(handles \o <<probe>>)))
           IN  /\ ser_io' = ser_io \o r.io
               /\ call' = [op |-> "instantiate_tenma_class_from_device_response",
                           args |-> <<device>>, replies |-> <<reply1, reply2>>, exc |-> r.exc,
                           msg |-> r.msg, ret |-> r.ret, before |-> Len(ser_io)]
               /\ self_cls' = r.ret.cls
               /\ handles' = handles \o <<probe, bound>>
               /\ self_ser' = Len(handles) + 2
               /\ UNCHANGED cli

\* a set_port that also falls back to the limits of the base class
SetPort_resetting_the_class ==
    /\ self_cls \in Classes
    /\ Len(handles) < MaxHandles
    /\ \E serial_port \in Ports :
           /\ handles' = [handles EXCEPT ![self_ser].held = FALSE]
                             \o <<Handle(serial_port, Cardinality(OpenHeld(handles)))>>
           /\ self_ser' = Len(handles) + 1
           /\ self_cls' = "Tenma72Base"
           /\ call' = [op |-> "set_port", args |-> <<serial_port>>, replies |-> <<>>,
                       exc |-> "", msg |-> "", ret |-> "None", before |-> Len(ser_io)]
           /\ UNCHANGED <<ser_io, cli>>

\* set_port(serial_port): serial.Serial(...) opens the new handle while
\* self.ser still refers to the previous one, and the assignment then drops
\* that reference without closing it; whether the dropped object is
\* finalized (which closes it) by the time the call returns is up to the
\* interpreter
SetPort ==
    /\ self_cls \in Classes
    /\ Len(handles) < MaxHandles
    /\ \E serial_port \in Ports, finalized \in BOOLEAN :
           LET opened == Handle(serial_port, Cardinality(OpenHeld(handles)))
               dropped == [handles[self_ser] EXCEPT !.held = FALSE,
                                                    !.open = @ /\ ~finalized]
           IN  /\ handles' = [handles EXCEPT ![self_ser] = dropped] \o <<opened>>
               /\ self_ser' = Len(handles) + 1
               /\ call' = [op |-> "set_port", args |-> <<serial_port>>, replies |-> <<>>,
                           exc |-> "", msg |-> "", ret |-> "None", before |-> Len(ser_io)]
               /\ UNCHANGED <<self_cls, ser_io, cli>>

\* close(): self.ser.close()
Close ==
    /\ self_cls \in Classes
    /\ handles' = [handles EXCEPT ![self_ser].open = FALSE]
    /\ call' = [op |-> "close", args |-> <<>>, replies |-> <<>>, exc |-> "", msg |-> "",
                ret |-> "None", before |-> Len(ser_io)]
    /\ UNCHANGED <<self_cls, ser_io, self_ser, cli>>

(***************************************************************************)
(* The command line program, tenma_control.main().                         *)
(***************************************************************************)
\* what main() does between `try` and `finally`, in its order; the recall
\* that comes before a save is a step of its own
CliSteps ==
    << "version", "recall_for_save", "ocp", "ovp", "beep", "voltage", "current", "save",
       "recall", "off", "on", "status", "running_current", "running_voltage" >>

\* the `if` that guards a step: an integer option counts when it is given
\* and not 0, --ocp, --ovp and --beep when they are given (<<>> is None)
Requested(a, step) ==
    CASE step = "version" -> ~a.script
      [] step \in {"recall_for_save", "save"} -> a.save # 0
      [] step \in {"ocp", "ovp", "beep"} -> a[step] # <<>>
      [] step \in {"voltage", "current", "recall"} -> a[step] # 0
      [] OTHER -> a[step]

\* the command lines the model draws from: at most MaxRequested requests,
\* values inside and outside the limits of every class
CliArgs ==
    { a \in [device : {DefaultPort}, script : BOOLEAN, channel : {1, 3}, save : {0, 1, 9},
             ocp : {<<>>, <<TRUE>>}, ovp : {<<>>, <<TRUE>>}, beep : {<<>>, <<FALSE>>},
             voltage : {0, 1000, 70000}, current : {0, 1000, 9000}, recall : {0, 1, 9},
             off : BOOLEAN, on : BOOLEAN, status : BOOLEAN,
             running_current : BOOLEAN, running_voltage : BOOLEAN] :
          Cardinality({ k \in 1..Len(CliSteps) :
                          CliSteps[k] # "recall_for_save" /\ Requested(a, CliSteps[k]) })
              <= MaxRequested }

\* the step main() comes to from step k on, 0 if it comes to the end
NextStep(a, k) ==
    LET left == { j \in k..Len(CliSteps) : Requested(a, CliSteps[j]) }
    IN  IF left = {} THEN 0 ELSE CHOOSE j \in left : \A i \in left : j <= i

\* how a call ended, for main(): what it raised and what it did on the wire
Outcome(r) == [exc |-> r.exc, msg |-> r.msg, io |-> r.io]

\* the ways a step can end, over the replies the device may give
StepResults(self, step, a) ==
    CASE step = "version" ->
             { Outcome(get_version(self, <<>>, reply)) :
                   reply \in {<<>>, <<"T", "E", "N", "M", "A">>} }
      [] step = "recall_for_save" -> { Outcome(Then(off(self), recall_conf(self, a.save))) }
      [] step = "ocp" -> { Outcome(set_ocp(self, a.ocp[1])) }
      [] step = "ovp" -> { Outcome(set_ovp(self, a.ovp[1])) }
      [] step = "beep" -> { Outcome(set_beep(self, a.beep[1])) }
      [] step = "voltage" ->
             LET dry == set_voltage(self, a.channel, a.voltage, <<>>)
             IN  { Outcome(set_voltage(self, a.channel, a.voltage, reply)) :
                       reply \in IF Asked(dry) THEN SetReplies(SetBeforeQuery(dry.io)) ELSE {<<>>} }
      [] step = "current" ->
             LET dry == set_current(self, a.channel, a.current, <<>>)
             IN  { Outcome(set_current(self, a.channel, a.current, reply)) :
                       reply \in IF Asked(dry) THEN SetReplies(SetBeforeQuery(dry.io)) ELSE {<<>>} }
      [] step = "save" ->
             LET flow(rv, rc, rsv, rsc) == save_conf_flow(self, a.save, a.channel, rv, rc, rsv, rsc)
                 asked(r) == Len(Reads(r.io))
             IN  UNION UNION UNION
                 { { { { Outcome(flow(rv, rc, rsv, rsc)) :
                           rsc \in IF asked(flow(rv, rc, rsv, <<>>)) >= 4
                                   THEN SetReplies(SetBeforeQuery(flow(rv, rc, rsv, <<>>).io))
                                   ELSE {<<>>} } :
                         rsv \in IF asked(flow(rv, rc, <<>>, <<>>)) >= 3
                                 THEN SetReplies(SetBeforeQuery(flow(rv, rc, <<>>, <<>>).io))
                                 ELSE {<<>>} } :
                       rc \in RepliesIf(asked(flow(rv, <<>>, <<>>, <<>>)) >= 2, FlowCurrReplies) } :
                     rv \in RepliesIf(asked(flow(<<>>, <<>>, <<>>, <<>>)) >= 1, FlowVoltReplies) }
      [] step = "recall" ->
             { Outcome(Then(recall_conf(self, a.recall),
                       Then(read_voltage(self, a.channel, rv),
                            read_current(self, a.channel, rc)))) :
                   rv \in {<<>>, <<"0", "5", ".", "0", "0">>},
                   rc \in {<<>>, <<"1", ".", "0", "0", "1">>} }
      [] step = "off" -> { Outcome(off(self)) }
      [] step = "on" ->
             { Outcome(IF self \in Tenma7213320Family
                       THEN Tenma7213320_on(self, <<>>) ELSE Tenma72Base_on(self)) }
      [] step = "status" -> { Outcome(get_status(self, reply)) : reply \in {<<>>, <<0>>, <<65>>, <<12>>} }
      [] step = "running_current" ->
             { Outcome(running_current(self, a.channel, reply)) :
                   reply \in {<<>>, <<"1", ".", "0", "0", "1">>} }
      [] step = "running_voltage" ->
             { Outcome(running_voltage(self, a.channel, reply)) :
                   reply \in {<<>>, <<"0", "5", ".", "0", "0">>} }

\* args = vars(parser.parse_args()); t = None: the state main() enters
\* its `try` in
InitMain ==
    /\ self_cls = NoDriver
    /\ ser_io = <<>>
    /\ call = [op |-> "__init__", args |-> <<>>, replies |-> <<>>, exc |-> "", msg |-> "",
               ret |-> "None", before |-> 0]
    /\ handles = <<>>
    /\ self_ser = 0
    /\ \E a \in CliArgs :
           cli = [pc |-> "start", at |-> 0, args |-> a, ran |-> <<>>, closes |-> 0,
                  t |-> FALSE, caught |-> FALSE, raised |-> ""]

\* t = instantiate_tenma_class_from_device_response(args["device"]): the
\* port cannot be opened, and serial.Serial raises with t still None, or
\* the driver is identified and bound to t
MainStart ==
    /\ cli.pc = "start"
    /\ \/ /\ cli' = [cli EXCEPT !.pc = "finally", !.raised = "SerialException"]
          /\ UNCHANGED <<self_cls, ser_io, call, handles, self_ser>>
       \/ \E reply1 \in {<<>>, <<"7", "2", "-", "2", "5", "4", "0">>,
                         <<"7", "2", "-", "1", "3", "3", "3", "0">>, <<"K">>} :
          \E reply2 \in RepliesIf(reply1 = <<>>, {<<>>, <<"7", "2", "-", "2", "5", "5", "0">>}) :
              LET device == cli.args.device
                  r == instantiate_tenma_class_from_device_response(device, reply1, reply2)
                  probe == [Handle(device, Cardinality(OpenHeld(handles)))
                               EXCEPT !.open = FALSE, !.held = FALSE]
                  bound == Handle(device, Cardinality(OpenHeld(handles \o <<probe>>)))
                  next == NextStep(cli.args, 1)
              IN  /\ ser_io' = ser_io \o r.io
                  /\ call' = [op |-> "instantiate_tenma_class_from_device_response",
                              args |-> <<device>>, replies |-> <<reply1, reply2>>,
                              exc |-> r.exc, msg |-> r.msg, ret |-> r.ret,
                              before |-> Len(ser_io)]
                  /\ self_cls' = r.ret.cls
                  /\ handles' = handles \o <<probe, bound>>
                  /\ self_ser' = Len(handles) + 2
                  /\ cli' = [cli EXCEPT !.t = TRUE, !.at = next,
                                        !.pc = IF next = 0 THEN "finally" ELSE "try"]

\* one step of the `try` block: it returns and main() goes on, or it raises
\* TenmaError, which `except TenmaError` prints, or it raises something
\* else, which leaves main(); either way the `finally` block comes next
MainAction ==
    /\ cli.pc = "try"
    /\ \E r \in StepResults(self_cls, CliSteps[cli.at], cli.args) :
           LET next == NextStep(cli.args, cli.at + 1)
           IN  /\ ser_io' = ser_io \o r.io
               /\ call' = [op |-> "main", args |-> <<CliSteps[cli.at]>>, replies |-> <<>>,
                           exc |-> r.exc, msg |-> r.msg, ret |-> "None", before |-> Len(ser_io)]
               /\ cli' = [cli EXCEPT !.ran = Append(@, CliSteps[cli.at]),
                                     !.at = IF r.exc = "" THEN next ELSE 0,
                                     !.pc = IF r.exc = "" /\ next # 0 THEN "try" ELSE "finally",
                                     !.caught = r.exc = "TenmaError",
                                     !.raised = IF r.exc \in {"", "TenmaError"} THEN "" ELSE r.exc]
               /\ UNCHANGED <<self_cls, handles, self_ser>>

\* a `finally` block that closes only when nothing was caught
MainFinally_skipping_after_error ==
    /\ cli.pc = "finally"
    /\ IF cli.t /\ ~cli.caught
       THEN /\ handles' = [handles EXCEPT ![self_ser].open = FALSE]
            /\ cli' = [cli EXCEPT !.pc = "exit", !.closes = @ + 1]
       ELSE /\ cli' = [cli EXCEPT !.pc = "exit"]
            /\ UNCHANGED handles
    /\ UNCHANGED <<self_cls, ser_io, call, self_ser>>

\* finally: if t: t.close()
MainFinally ==
    /\ cli.pc = "finally"
    /\ IF cli.t
       THEN /\ handles' = [handles EXCEPT ![self_ser].open = FALSE]
            /\ cli' = [cli EXCEPT !.pc = "exit", !.closes = @ + 1]
       ELSE /\ cli' = [cli EXCEPT !.pc = "exit"]
            /\ UNCHANGED handles
    /\ UNCHANGED <<self_cls, ser_io, call, self_ser>>

Next ==
    \/ CheckChannel \/ CheckVoltage \/ CheckCurrent
    \/ ReadVoltage \/ ReadCurrent \/ RunningVoltage \/ RunningCurrent
    \/ SetVoltage \/ SetCurrent
    \/ SaveConf \/ RecallConf \/ SaveConfFlow
    \/ GetStatus
    \/ On \/ Off
    \/ StartAutoVoltageStep \/ StopAutoVoltageStep
    \/ StartAutoCurrentStep \/ StopAutoCurrentStep
    \/ SetManualVoltageStep \/ StepVoltageUp \/ StepVoltageDown
    \/ SetManualCurrentStep \/ StepCurrentUp \/ StepCurrentDown
    \/ SetOcp \/ SetOvp \/ SetBeep \/ SetLock \/ SetTracking
    \/ GetVersion \/ Identify \/ SetPort \/ Close

Spec == Init /\ [][Next]_vars

\* the three checks, called directly
NextCheck == CheckChannel \/ CheckVoltage \/ CheckCurrent

SpecCheck == Init /\ [][NextCheck]_vars

\* the operations that take a channel, a value or a memory slot
NextOps ==
    \/ ReadVoltage \/ ReadCurrent \/ RunningVoltage \/ RunningCurrent
    \/ SetVoltage \/ SetCurrent
    \/ SaveConf \/ RecallConf
    \/ On \/ Off
    \/ StartAutoVoltageStep \/ StopAutoVoltageStep
    \/ StartAutoCurrentStep \/ StopAutoCurrentStep
    \/ SetManualVoltageStep \/ StepVoltageUp \/ StepVoltageDown
    \/ SetManualCurrentStep \/ StepCurrentUp \/ StepCurrentDown
    \/ SetOcp \/ SetOvp \/ SetBeep \/ SetLock \/ SetTracking

SpecOps == Init /\ [][NextOps]_vars

\* the compound save
NextFlow == SaveConfFlow

SpecFlow == Init /\ [][NextFlow]_vars

\* the status query
NextStatus == GetStatus

SpecStatus == Init /\ [][NextStatus]_vars

\* the calls that write one command or a command and its query, with the
\* version and the status query
NextCmd == NextOps \/ GetVersion \/ GetStatus

SpecCmd == Init /\ [][NextCmd]_vars

\* opening and closing ports, with calls that read from the device and
\* calls that fail
NextFrame ==
    \/ Identify \/ SetPort \/ Close
    \/ GetVersion \/ GetStatus \/ ReadVoltage \/ SetCurrent

SpecFrame == Init /\ [][NextFrame]_vars

\* a run of the command line program
NextMain == MainStart \/ MainAction \/ MainFinally

SpecMain == InitMain /\ [][NextMain]_vars

\* identification, and the version query of a driver
NextIdent == Identify \/ GetVersion

SpecIdent == Init /\ [][NextIdent]_vars

\* the calls that open and close serial ports
NextPorts == Identify \/ SetPort \/ Close

SpecPorts == Init /\ [][NextPorts]_vars

\* identification and the calls that read a reply, with the calls that
\* switch the output and the beeper, which only write
NextWire ==
    \/ Identify \/ GetVersion \/ GetStatus
    \/ ReadVoltage \/ ReadCurrent \/ RunningVoltage \/ RunningCurrent
    \/ SetVoltage \/ SetCurrent
    \/ SaveConfFlow
    \/ On \/ Off \/ SetBeep

SpecWire == Init /\ [][NextWire]_vars

(***************************************************************************)
(* What the claims speak of.                                               *)
(***************************************************************************)
\* the I/O of the last call, and the commands it wrote
CallIO == SubSeq(ser_io, call.before + 1, Len(ser_io))

CallWrites == Writes(CallIO)

CallReads == Reads(CallIO)

\* the call left the write log as it was
LogUnchanged == Len(ser_io) = call.before

StartsWith(s, prefix) == Len(s) >= Len(prefix) /\ SubSeq(s, 1, Len(prefix)) = prefix

\* the messages of the three checks
ChannelRangeMsg(self, channel) ==
    "Channel CH" \o ToString(channel) \o " not in range (" \o ToString(NCHANNELS(self))
        \o " channels supported)"

VoltageCeilingMsg(self, channel, mv) ==
    "Trying to set CH" \o ToString(channel) \o " voltage to " \o ToString(mv)
        \o "mV, the maximum is " \o ToString(MAX_MV(self)) \o "mV"

CurrentCeilingMsg(self, channel, ma) ==
    "Trying to set CH" \o ToString(channel) \o " current to " \o ToString(ma)
        \o "mA, the maximum is " \o ToString(MAX_MA(self)) \o "mA"

\* C1 as claimed: check_channel accepts c only if 1 <= c <= channel_count
C1_AcceptsOnlyOneToCount ==
    (call.op = "check_channel" /\ call.exc = "")
        => (1 <= call.args[1] /\ call.args[1] <= NCHANNELS(self_cls))

\* C1 as amended: check_channel rejects c, with the channel-range error,
\* exactly when c > channel_count; no lower bound is checked, so 0 and
\* negative channels are accepted
C1_RejectsExactlyAboveCount ==
    call.op = "check_channel"
        => /\ call.exc = "" <=> call.args[1] <= NCHANNELS(self_cls)
           /\ call.exc # "" => /\ call.exc = "TenmaError"
                               /\ call.msg = ChannelRangeMsg(self_cls, call.args[1])
           /\ LogUnchanged

C1_Witness == call.op = "check_channel" /\ call.args[1] = 0 /\ call.exc = ""

\* the operations that take a channel: those of every class, and those the
\* 3-channel family implements
BaseChannelOps ==
    {"read_voltage", "read_current", "running_voltage", "running_current", "set_voltage",
     "set_current"}

SteppingOps ==
    {"start_auto_voltage_step", "stop_auto_voltage_step", "start_auto_current_step",
     "stop_auto_current_step", "set_manual_voltage_step", "step_voltage_up",
     "step_voltage_down", "set_manual_current_step", "step_current_up", "step_current_down"}

ChannelOps(self) ==
    IF self \in Tenma7213320Family THEN BaseChannelOps \cup SteppingOps \cup {"on", "off"}
    ELSE BaseChannelOps

\* C2: an operation given a channel above channel_count fails with the
\* channel-range error and writes nothing
C2_ChannelAboveCountFailsUnwritten ==
    (/\ call.op \in ChannelOps(self_cls)
     /\ call.args # <<>>
     /\ call.args[1] > NCHANNELS(self_cls))
        => /\ call.exc = "TenmaError"
           /\ call.msg = ChannelRangeMsg(self_cls, call.args[1])
           /\ CallWrites = <<>>
           /\ LogUnchanged

C2_Witness ==
    /\ self_cls \in Tenma7213320Family
    /\ call.op = "step_current_down"
    /\ call.args[1] = NCHANNELS(self_cls) + 1
    /\ call.exc = "TenmaError"
    /\ LogUnchanged

\* the channel 3 of the 3-channel family takes three voltages only
Channel3VoltageRefused(self, channel, mv) ==
    self \in Tenma7213320Family /\ channel = 3 /\ mv \notin {2500, 3300, 5000}

\* C3: a value above the ceiling fails with a validation error before any
\* write; the ceiling itself and every value below pass the check, so that
\* the set command is written
C3_CeilingInclusiveBeforeWrite ==
    /\ call.op = "set_voltage"
        => LET channel == call.args[1]
               mv == call.args[2]
           IN  /\ mv > MAX_MV(self_cls)
                   => /\ call.exc = "TenmaError"
                      /\ CallWrites = <<>>
                      /\ LogUnchanged
                      /\ (channel <= NCHANNELS(self_cls)
                          /\ ~Channel3VoltageRefused(self_cls, channel, mv))
                             => call.msg = VoltageCeilingMsg(self_cls, channel, mv)
               /\ mv <= MAX_MV(self_cls)
                   => /\ call.msg # VoltageCeilingMsg(self_cls, channel, mv)
                      /\ (channel <= NCHANNELS(self_cls)
                          /\ ~Channel3VoltageRefused(self_cls, channel, mv))
                             => /\ CallWrites # <<>>
                                /\ StartsWith(CallWrites[1].data,
                                              W_VSET \o IntChars(channel) \o <<":">>)
    /\ call.op = "set_current"
        => LET channel == call.args[1]
               ma == call.args[2]
           IN  /\ ma > MAX_MA(self_cls)
                   => /\ call.exc = "TenmaError"
                      /\ CallWrites = <<>>
                      /\ LogUnchanged
                      /\ channel <= NCHANNELS(self_cls)
                             => call.msg = CurrentCeilingMsg(self_cls, channel, ma)
               /\ ma <= MAX_MA(self_cls)
                   => /\ call.msg # CurrentCeilingMsg(self_cls, channel, ma)
                      /\ channel <= NCHANNELS(self_cls)
                             => /\ CallWrites # <<>>
                                /\ StartsWith(CallWrites[1].data,
                                              W_ISET \o IntChars(channel) \o <<":">>)

C3_Witness ==
    /\ call.op = "set_voltage"
    /\ call.args = <<1, MAX_MV(self_cls) + 1>>
    /\ call.exc = "TenmaError"
    /\ call.msg = VoltageCeilingMsg(self_cls, 1, MAX_MV(self_cls) + 1)
    /\ LogUnchanged

\* C4 as claimed: save_conf and recall_conf write a command only for a slot
\* in 1..config_slot_count, fail with a validation error and write nothing
\* for any other slot, and never write on the 3-channel family
C4_WritesOnlyForSlotOneToCount ==
    call.op \in {"save_conf", "recall_conf"}
        => LET slot == call.args[1]
               valid == 1 <= slot /\ slot <= NCONFS(self_cls)
           IN  /\ CallWrites # <<>> => valid
               /\ ~valid => (call.exc = "TenmaError" /\ LogUnchanged)
               /\ self_cls \in Tenma7213320Family => CallWrites = <<>>

\* C5 as claimed: when the device answers the read-back query with exactly
\* the value the set command wrote, set_voltage(ch, mv) and
\* set_current(ch, ma) succeed and return the requested value
C5_RoundTrip ==
    (/\ call.op \in {"set_voltage", "set_current"}
     /\ 1 <= call.args[1] /\ call.args[1] <= NCHANNELS(self_cls)
     /\ 0 <= call.args[2]
     /\ call.args[2] <= (IF call.op = "set_voltage" THEN MAX_MV(self_cls) ELSE MAX_MA(self_cls))
     /\ Len(CallWrites) >= 1
     /\ Len(CallReads) = 1
     /\ CallReads[1].data = ValueWritten(CallWrites[1].data))
        => /\ call.exc = ""
           /\ call.ret = call.args[2]

\* the decimal number a numeric reply carries, in thousandths
ReplyMilli(op, reply) ==
    FloatMilli(IF op = "set_current" /\ Len(reply) > 5 THEN SubSeq(reply, 1, 5) ELSE reply)

ReplyParses(op, reply) ==
    FloatParses(IF op = "set_current" /\ Len(reply) > 5 THEN SubSeq(reply, 1, 5) ELSE reply)

\* C6 as claimed: a set operation whose arguments pass validation writes
\* the set command, then the matching query, and reads once; if the value
\* read back differs from the request it fails with an error naming both,
\* both commands having been written and nothing else
C6_SetWritesSetThenQuery ==
    (/\ call.op \in {"set_voltage", "set_current"}
     /\ call.args[1] <= NCHANNELS(self_cls)
     /\ call.args[2] <= (IF call.op = "set_voltage" THEN MAX_MV(self_cls) ELSE MAX_MA(self_cls))
     /\ ~(call.op = "set_voltage" /\ Channel3VoltageRefused(self_cls, call.args[1], call.args[2])))
        => LET word == IF call.op = "set_voltage" THEN W_VSET ELSE W_ISET
               unit == IF call.op = "set_voltage" THEN "mV" ELSE "mA"
               reply == call.replies[1]
           IN  /\ Len(CallWrites) = 2
               /\ StartsWith(CallWrites[1].data, word \o IntChars(call.args[1]) \o <<":">>)
               /\ CallWrites[2].data = word \o IntChars(call.args[1]) \o <<"?">> \o SERIAL_EOL(self_cls)
               /\ Len(CallReads) = 1
               /\ CallIO[Len(CallIO)].ev = "read"
               /\ (ReplyParses(call.op, reply) /\ ReplyMilli(call.op, reply) # call.args[2])
                      => /\ call.exc = "TenmaError"
                         /\ call.msg = "Set " \o ToString(call.args[2]) \o unit \o ", but read "
                                           \o ToString(ReplyMilli(call.op, reply)) \o unit

\* the i-th command of the compound save: output off, the two queries,
\* the recall, the voltage set and read back, the current set and read
\* back, the save
FlowCommandAt(self, conf, channel, i, data) ==
    LET ch == IntChars(channel)
        eol == SERIAL_EOL(self)
    IN  CASE i = 1 -> data = W_OUT \o (IF self \in Tenma7213320Family
                                       THEN <<"1", "2", ":", "0">> ELSE <<"0">>) \o eol
          [] i = 2 -> data = W_VSET \o ch \o <<"?">> \o eol
          [] i = 3 -> data = W_ISET \o ch \o <<"?">> \o eol
          [] i = 4 -> StartsWith(data, W_RCL)
          [] i = 5 -> StartsWith(data, W_VSET \o ch \o <<":">>)
          [] i = 6 -> data = W_VSET \o ch \o <<"?">> \o eol
          [] i = 7 -> StartsWith(data, W_ISET \o ch \o <<":">>)
          [] i = 8 -> data = W_ISET \o ch \o <<"?">> \o eol
          [] i = 9 -> data = W_SAV \o IntChars(conf) \o eol
          [] OTHER -> FALSE

\* the i-th reply the compound save read: the second and the fourth are
\* replies to a current query
FlowReadOp(i) == IF i % 2 = 0 THEN "set_current" ELSE "set_voltage"

FlowReadParses(i) == ReplyParses(FlowReadOp(i), CallReads[i].data)

FlowReadMilli(i) == ReplyMilli(FlowReadOp(i), CallReads[i].data)

\* C7 as claimed: a successful compound save writes output-off, the voltage
\* query, the current query, the recall, the voltage set, the current set
\* and the save in this order, and the voltage and the current it sets are
\* the values the two queries before the recall read
C7_FlowOrderAndValues ==
    (call.op = "save_conf_flow" /\ call.exc = "")
        => LET conf == call.args[1]
               channel == call.args[2]
               w == CallWrites
           IN  /\ Len(w) = 9
               /\ \A i \in 1..Len(w) : FlowCommandAt(self_cls, conf, channel, i, w[i].data)
               /\ Len(CallReads) = 4
               /\ FloatMilli(ValueWritten(w[5].data)) = FlowReadMilli(1)
               /\ FloatMilli(ValueWritten(w[7].data)) = FlowReadMilli(2)

RecallRangeMsg(self, conf) ==
    "Trying to recall M" \o ToString(conf) \o " with only " \o ToString(NCONFS(self)) \o " confs"

\* C8: a compound save that fails writes no command of a later step: a
\* rejected recall ends it after the two queries, an unparsable reply ends
\* it at that read, a read-back mismatch ends it at that read-back; a failed
\* save has written no save command, the error is the call's outcome, and
\* no command of the flow switches the output on
C8_FailedFlowWritesNoLaterStep ==
    call.op = "save_conf_flow"
        => LET conf == call.args[1]
               channel == call.args[2]
               w == CallWrites
               n == Len(CallReads)
               last == CallIO[Len(CallIO)]
               WritesAfterReads(k) == CASE k = 1 -> 2 [] k = 2 -> 3 [] k = 3 -> 6 [] OTHER -> 8
           IN  /\ \A i \in 1..Len(w) :
                      /\ FlowCommandAt(self_cls, conf, channel, i, w[i].data)
                      /\ ~(StartsWith(w[i].data, W_OUT)
                           /\ RStrip(w[i].data)[Len(RStrip(w[i].data))] = "1")
               /\ call.exc # ""
                      => /\ Len(w) < 9
                         /\ \A i \in 1..Len(w) : ~StartsWith(w[i].data, W_SAV)
               \* the recall rejected
               /\ (conf > NCONFS(self_cls) /\ n >= 2 /\ FlowReadParses(1) /\ FlowReadParses(2))
                      => /\ call.exc = "TenmaError"
                         /\ call.msg = RecallRangeMsg(self_cls, conf)
                         /\ Len(w) = 3 /\ n = 2 /\ IsRead(last)
               \* a reply that is no number
               /\ (n >= 1 /\ ~FlowReadParses(n))
                      => /\ call.exc = "ValueError"
                         /\ IsRead(last)
                         /\ Len(w) = WritesAfterReads(n)
               \* the voltage read back differs
               /\ (n >= 3 /\ FlowReadParses(3)
                   /\ IntTimes1000(FlowReadMilli(3)) # IntTimes1000(FlowReadMilli(1)))
                      => /\ call.exc = "TenmaError"
                         /\ call.msg = "Set " \o ToString(IntTimes1000(FlowReadMilli(1)))
                                           \o "mV, but read "
                                           \o ToString(IntTimes1000(FlowReadMilli(3))) \o "mV"
                         /\ Len(w) = 6 /\ n = 3 /\ IsRead(last)
               \* the current read back differs
               /\ (n = 4 /\ FlowReadParses(4)
                   /\ IntTimes1000(FlowReadMilli(4)) # IntTimes1000(FlowReadMilli(2)))
                      => /\ call.exc = "TenmaError"
                         /\ call.msg = "Set " \o ToString(IntTimes1000(FlowReadMilli(2)))
                                           \o "mA, but read "
                                           \o ToString(IntTimes1000(FlowReadMilli(4))) \o "mA"
                         /\ Len(w) = 8 /\ IsRead(last)

C8_Witness ==
    /\ call.op = "save_conf_flow"
    /\ call.args[1] > NCONFS(self_cls)
    /\ call.exc = "TenmaError"
    /\ call.msg = RecallRangeMsg(self_cls, call.args[1])
    /\ Len(CallWrites) = 3

\* C9 as claimed: a compound save given a slot above config_slot_count or a
\* channel above channel_count fails with a validation error, the write log
\* still empty
C9_FlowValidatesBeforeWriting ==
    (/\ call.op = "save_conf_flow"
     /\ \/ call.args[1] > NCONFS(self_cls)
        \/ call.args[2] > NCHANNELS(self_cls))
        => /\ call.exc = "TenmaError"
           /\ CallWrites = <<>>
           /\ LogUnchanged

\* C10 as claimed: for every status byte b the base get_status returns a
\* Mode with ch1_mode C.V iff bit 0, ch2_mode C.V iff bit 1, beep_enabled
\* iff bit 4, lock_enabled iff bit 5, out1_enabled iff bit 6 and
\* out2_enabled false
C10_BaseStatusDecodesEveryByte ==
    (/\ call.op = "get_status"
     /\ self_cls \notin Tenma7213320Family
     /\ Len(call.replies[1]) = 1)
        => LET b == call.replies[1][1]
               Bit(i) == (b \div Pow2(i)) % 2 = 1
           IN  /\ call.exc = ""
               /\ call.ret.ch1_mode = (IF Bit(0) THEN "C.V" ELSE "C.C")
               /\ call.ret.ch2_mode = (IF Bit(1) THEN "C.V" ELSE "C.C")
               /\ call.ret.beep_enabled = Bit(4)
               /\ call.ret.lock_enabled = Bit(5)
               /\ call.ret.out1_enabled = Bit(6)
               /\ call.ret.out2_enabled = FALSE

\* the two tracking bits of a status byte, as a number 0..3
TrackingField(b) == (b \div 4) % 4

\* C11 as claimed: the base get_status decodes a byte with both tracking
\* bits set to a result; 0xFF gives both channels C.V, tracking mode 3,
\* beep, lock and output 1 true, output 2 false; the tracking field 0 is
\* independent (0), 1 is series (1), 2 and 3 are parallel
C11_BothTrackingBitsDecoded ==
    (/\ call.op = "get_status"
     /\ self_cls \notin Tenma7213320Family
     /\ Len(call.replies[1]) = 1)
        => LET b == call.replies[1][1]
           IN  /\ call.exc = ""
               /\ TrackingField(b) \in {0, 1} => call.ret.tracking_mode = TrackingField(b)
               /\ TrackingField(b) \in {2, 3} => call.ret.tracking_mode \in {2, 3}
               /\ b = 255 => call.ret = Mode("C.V", "C.V", 3, TRUE, TRUE, TRUE, FALSE)

\* the last call was an identification
Identified == call.op = "instantiate_tenma_class_from_device_response"

\* the version the classes are matched against: the first reply, or the
\* reply to the second query when the first was empty
IdentVer == IF call.replies[1] # <<>> THEN call.replies[1] ELSE call.replies[2]

\* the classes a device can be identified as
Registered == Classes \ {"Tenma72Base"}

C12_WitnessDefault ==
    /\ Identified
    /\ IdentVer = <<>>
    /\ self_cls = "Tenma722545"

\* the first class of `order` one of whose patterns is in the version
FirstMatch(order, ver) ==
    order[CHOOSE i \in 1..Len(order) :
              /\ Matches(order[i], ver)
              /\ \A j \in 1..(i - 1) : ~Matches(order[j], ver)]

\* C13 as claimed: when the version names registered models, the driver is
\* of the one declared first in the source, the 72-13320 before the
\* 72-13330 that derives from it.
C13_EarliestDeclaredWins ==
    (Identified /\ \E c \in Registered : Matches(c, IdentVer))
        => self_cls = FirstMatch(find_subclasses_in_declaration_order("Tenma72Base"), IdentVer)

\* the order in which the classes are tried: the order of declaration,
\* but a derived class before the class it derives from
TriedOrder ==
    << "Tenma722540", "Tenma722535", "Tenma722545", "Tenma722550", "Tenma722930",
       "Tenma722705", "Tenma722940", "Tenma7213330", "Tenma7213320" >>

\* C13: when the version names registered models, the driver is of the
\* first of them in the order of trial, in which the derived 72-13330 comes
\* before the 72-13320; the class is a function of the version.
C13_FirstTriedWins ==
    (Identified /\ \E c \in Registered : Matches(c, IdentVer))
        => self_cls = FirstMatch(TriedOrder, IdentVer)

\* a version naming the 72-13320 and the 72-13330, in either order
C13_Witness ==
    /\ Identified
    /\ Matches("Tenma7213320", IdentVer)
    /\ Matches("Tenma7213330", IdentVer)
    /\ StartsWith(IdentVer, MATCH_STR("Tenma7213320")[1])
    /\ self_cls = "Tenma7213330"

\* the i-th reply the compound save read is no answer to go on with: it is
\* empty or no number, or it is a read-back that differs from what was set
FlowReplyBad(i) ==
    \/ ~FlowReadParses(i)
    \/ i >= 3 /\ IntTimes1000(FlowReadMilli(i)) # IntTimes1000(FlowReadMilli(i - 2))

\* C14: identification writes "*IDN?" with no terminator, and writes it a
\* second time, followed by a newline, exactly when the first reply was
\* empty; it writes nothing else.  No other call writes again after a reply
\* that is empty, malformed or mismatching: a call other than the compound
\* save reads once, as the last thing it does, and a compound save that
\* reads such a reply ends at that read.
C14_OnlyIdentificationAsksAgain ==
    /\ Identified
           => /\ CallWrites[1].data = <<"*", "I", "D", "N", "?">>
              /\ Len(CallWrites) = (IF call.replies[1] = <<>> THEN 2 ELSE 1)
              /\ Len(CallWrites) = 2 => CallWrites[2].data = <<"*", "I", "D", "N", "?", "\n">>
              /\ Len(CallReads) = Len(CallWrites)
    /\ (~Identified /\ CallReads # <<>>)
           => LET n == Len(CallReads)
                  last == CallIO[Len(CallIO)]
              IN  /\ call.op # "save_conf_flow"
                         => n = 1 /\ IsRead(last) /\ Len(CallWrites) <= 2
                  /\ call.op = "save_conf_flow"
                         => \A i \in 1..n : FlowReplyBad(i) => i = n /\ IsRead(last)

\* nothing came to the first query and the query was written again
C14_Witness ==
    /\ Identified
    /\ call.replies[1] = <<>>
    /\ Len(CallWrites) = 2
    /\ CallWrites[2].data = <<"*", "I", "D", "N", "?", "\n">>

\* a compound save ended at a read-back that differed
C14_WitnessFlow ==
    /\ call.op = "save_conf_flow"
    /\ Len(CallReads) = 3
    /\ FlowReadParses(3)
    /\ FlowReplyBad(3)
    /\ IsRead(CallIO[Len(CallIO)])

\* the calls a class with one channel does not implement, and the calls the
\* classes with three channels do not implement
UnsupportedOps(self) ==
    IF self \in Tenma7213320Family THEN {"set_ocp", "set_ovp"}
    ELSE {"set_lock", "set_tracking"} \cup SteppingOps

\* C15: on a class with one channel, set_lock, set_tracking and the ten
\* stepping calls fail with NotImplementedError whatever the arguments, and
\* write nothing; so do set_ocp and set_ovp on the classes with three
\* channels.
C15_UnsupportedFailsUnwritten ==
    call.op \in UnsupportedOps(self_cls)
        => /\ call.exc = "NotImplementedError"
           /\ LogUnchanged

\* a lock refused by a class with one channel, the 72-2550
C15_Witness ==
    /\ call.op = "set_lock"
    /\ self_cls = "Tenma722550"
    /\ call.exc = "NotImplementedError"
    /\ ser_io = <<>>

\* overcurrent protection refused by a class with three channels
C15_WitnessOcp ==
    /\ call.op = "set_ocp"
    /\ self_cls \in Tenma7213320Family
    /\ call.exc = "NotImplementedError"
    /\ ser_io = <<>>

\* C16: on the classes with three channels, set_voltage(3, mv) writes only
\* if mv is 2500, 3300 or 5000, and then writes the set command of channel
\* 3; with any other mv it fails, nothing written.  The general checks
\* still apply: on channel 1 or 2 a voltage above MAX_MV fails, nothing
\* written, and so does a channel above 3.
C16_Channel3VoltagesOnTopOfChecks ==
    (call.op = "set_voltage" /\ self_cls \in Tenma7213320Family)
        => LET channel == call.args[1]
               mv == call.args[2]
           IN  /\ (channel = 3 /\ mv \notin {2500, 3300, 5000})
                      => /\ call.exc = "TenmaError"
                         /\ call.msg = "Channel CH3 can only be set to 2500mV, 3300mV or 5000mV"
                         /\ LogUnchanged
               /\ (channel = 3 /\ mv \in {2500, 3300, 5000})
                      => /\ CallWrites # <<>>
                         /\ StartsWith(CallWrites[1].data, W_VSET \o <<"3", ":">>)
               /\ (channel \in {1, 2} /\ mv > MAX_MV(self_cls))
                      => /\ call.exc = "TenmaError"
                         /\ call.msg = VoltageCeilingMsg(self_cls, channel, mv)
                         /\ LogUnchanged
               /\ channel > 3
                      => /\ call.exc = "TenmaError"
                         /\ call.msg = ChannelRangeMsg(self_cls, channel)
                         /\ LogUnchanged

\* channel 3 was set to 3300 mV
C16_Witness ==
    /\ call.op = "set_voltage"
    /\ self_cls \in Tenma7213320Family
    /\ call.args = <<3, 3300>>
    /\ call.exc = ""
    /\ Len(CallWrites) = 2

\* channel 3 was refused 1000 mV
C16_WitnessRefused ==
    /\ call.op = "set_voltage"
    /\ self_cls \in Tenma7213320Family
    /\ call.args = <<3, 1000>>
    /\ call.exc = "TenmaError"
    /\ ser_io = <<>>

\* C17 as claimed: on the classes with three channels, a read_current, a
\* running_current or a set_current that fails because channel 3 has no
\* current to read fails with nothing written
C17_Channel3CurrentFailsUnwritten ==
    (/\ call.op \in {"read_current", "running_current", "set_current"}
     /\ self_cls \in Tenma7213320Family
     /\ call.msg = "Channel CH3 does not support reading current")
        => /\ call.exc = "TenmaError"
           /\ call.args[1] = 3
           /\ CallWrites = <<>>
           /\ LogUnchanged

\* C18 as claimed: recall_conf(slot) with a slot from 1 to NCONFS writes
\* "RCL" followed by the slot in decimal, and save_conf(slot) writes "SAV"
\* followed by the slot, each with the terminator of the class
C18_RecallAndSaveCarryTheSlot ==
    (/\ call.op \in {"recall_conf", "save_conf"}
     /\ 1 <= call.args[1] /\ call.args[1] <= NCONFS(self_cls))
        => /\ call.exc = ""
           /\ Len(CallWrites) = 1
           /\ CallWrites[1].data = (IF call.op = "recall_conf" THEN W_RCL ELSE W_SAV)
                                       \o IntChars(call.args[1]) \o SERIAL_EOL(self_cls)

\* C19 as claimed: at most one handle is open and referred to by a driver,
\* and every handle was opened when no other was: identification closes the
\* handle it asked over before the driver's is opened, and set_port has
\* closed or dropped the previous handle before it opens the new one
C19_OneHandleAtATime ==
    /\ Cardinality(OpenHeld(handles)) <= 1
    /\ \A i \in 1..Len(handles) : handles[i].beside = 0

\* identification alone keeps to it
C19_IdentificationClosesItsProbe ==
    Identified
        => /\ Len(handles) = 2
           /\ ~handles[1].open
           /\ handles[2] = Handle(call.args[1], 0)

\* C20: in the log of the serial port, every write is followed at once by
\* the pause of 0.2 s: the event after a write is never a read nor another
\* write, and no call ends on a write.
C20_SettleAfterEveryWrite ==
    \A k \in 1..Len(ser_io) :
        IsWrite(ser_io[k]) => k < Len(ser_io) /\ ser_io[k + 1] = SleepEv

\* a compound save got past its first query: written, paused, read, and
\* written again
C20_Witness ==
    /\ call.op = "save_conf_flow"
    /\ Len(ser_io) >= 7
    /\ IsWrite(ser_io[3]) /\ ser_io[4] = SleepEv /\ IsRead(ser_io[5])
    /\ IsWrite(ser_io[6]) /\ ser_io[7] = SleepEv

\* the number of newlines at the end of a command
RECURSIVE TrailingNewlines(_)
TrailingNewlines(data) ==
    IF data # <<>> /\ data[Len(data)] = "\n"
    THEN 1 + TrailingNewlines(SubSeq(data, 1, Len(data) - 1))
    ELSE 0

\* C21 as claimed: every command a driver writes ends with the terminator of
\* its class and with nothing more: with no newline on the classes with one
\* channel, with exactly one on the classes with three, whatever the call.
C21_OnlyTheClassTerminator ==
    (call.op # "__init__" /\ ~Identified)
        => \A i \in 1..Len(CallWrites) :
               TrailingNewlines(CallWrites[i].data) = Len(SERIAL_EOL(self_cls))

\* C21: every command a driver writes ends with the terminator of its
\* class and with nothing more, except the version query, which ends with
\* the terminator the caller passed to get_version (none by default)
\* followed by the terminator of the class.
C21_ClassTerminatorAfterCallersOwn ==
    (call.op # "__init__" /\ ~Identified)
        => \A i \in 1..Len(CallWrites) :
               /\ call.op # "get_version"
                      => TrailingNewlines(CallWrites[i].data) = Len(SERIAL_EOL(self_cls))
               /\ call.op = "get_version"
                      => CallWrites[i].data
                             = <<"*", "I", "D", "N", "?">> \o call.args[1] \o SERIAL_EOL(self_cls)

\* a driver with three channels was asked its version with a newline, and
\* wrote two
C21_Witness ==
    /\ call.op = "get_version"
    /\ self_cls \in Tenma7213320Family
    /\ call.args[1] = <<"\n">>
    /\ TrailingNewlines(CallWrites[1].data) = 2

ReadingOps == {"read_voltage", "read_current", "running_voltage", "running_current", "get_status"}

\* C22: a reading call that wrote its query and to which the device sent
\* nothing ends in an exception, not in a value: ValueError from float("")
\* for the four numeric reads, IndexError from status_bytes[0] for
\* get_status.  It has written its query once and read once, and that is
\* all it did.
C22_SilentDeviceFailsTheRead ==
    (/\ call.op \in ReadingOps
     /\ ~LogUnchanged
     /\ call.replies[1] = <<>>)
        => /\ call.exc = (IF call.op = "get_status" THEN "IndexError" ELSE "ValueError")
           /\ call.ret = "None"
           /\ Len(CallIO) = 3
           /\ IsWrite(CallIO[1]) /\ CallIO[2] = SleepEv /\ CallIO[3] = ReadEv(<<>>)

\* the running voltage was asked of a silent device
C22_Witness ==
    /\ call.op = "running_voltage"
    /\ call.replies[1] = <<>>
    /\ call.exc = "ValueError"
    /\ Len(CallWrites) = 1

\* a step leaves the class of the driver as it was, self.ser too unless it
\* is a set_port, and the handles too unless it is a set_port or a close
DriverKept ==
    /\ self_cls' = self_cls
    /\ call.op' = "set_port" \/ self_ser' = self_ser
    /\ call.op' \in {"set_port", "close"} \/ handles' = handles

\* C23: once a driver exists its class, and with it NCHANNELS, NCONFS,
\* MAX_MA, MAX_MV, SERIAL_EOL and the status decoder, is the same after
\* every call, a set_port to another port and a call that failed included;
\* and the one field of the driver, self.ser, is changed by set_port alone:
\* no call puts what it read from the device into the driver.
C23_ProfileFixedAtCreation == [][(self_cls # NoDriver) => DriverKept]_vars

\* the port of a 72-2550 driver was changed and it is a 72-2550 driver
C23_Witness ==
    /\ call.op = "set_port"
    /\ self_cls = "Tenma722550"
    /\ handles[self_ser].port # handles[1].port
    /\ MAX_MA(self_cls) = 3000

\* C24 as claimed: a TenmaError of set_voltage or set_current on channel 1
\* or above names the channel; the channel-range error names the channel count as well, a
\* ceiling error the value and the maximum, and a read-back mismatch the
\* value asked for and the value read
C24_ErrorsNameChannelValueAndLimit ==
    (call.op \in {"set_voltage", "set_current"} /\ call.exc = "TenmaError" /\ call.args[1] >= 1)
        => LET channel == call.args[1]
               value == call.args[2]
               unit == IF call.op = "set_voltage" THEN "mV" ELSE "mA"
               max == IF call.op = "set_voltage" THEN MAX_MV(self_cls) ELSE MAX_MA(self_cls)
           IN  /\ Contains(call.msg, "CH" \o ToString(channel))
               /\ channel > NCHANNELS(self_cls)
                      => Contains(call.msg, ToString(NCHANNELS(self_cls)) \o " channels")
               /\ (LogUnchanged /\ channel <= NCHANNELS(self_cls) /\ value > max)
                      => /\ Contains(call.msg, ToString(value) \o unit)
                         /\ Contains(call.msg, ToString(max) \o unit)
               /\ (CallReads # <<>> /\ ReplyParses(call.op, call.replies[1]))
                      => /\ Contains(call.msg, ToString(value) \o unit)
                         /\ Contains(call.msg, ToString(ReplyMilli(call.op, call.replies[1])) \o unit)

\* C25 as claimed: on a channel of the classes with three channels, an
\* automatic step
\* whose start or stop value is above the ceiling (MAX_MV for a voltage
\* step, MAX_MA for a current step) and a manual step above the ceiling
\* fail with a TenmaError, nothing written
C25_StepArgumentsHeldToCeiling ==
    (/\ self_cls \in Tenma7213320Family
     /\ call.op \in SteppingOps
     /\ call.args[1] \in 1..NCHANNELS(self_cls))
        => LET max == IF call.op \in {"start_auto_voltage_step", "set_manual_voltage_step"}
                      THEN MAX_MV(self_cls) ELSE MAX_MA(self_cls)
           IN  /\ (/\ call.op \in {"start_auto_voltage_step", "start_auto_current_step"}
                   /\ (call.args[2] > max \/ call.args[3] > max))
                      => call.exc = "TenmaError" /\ LogUnchanged
               /\ (/\ call.op \in {"set_manual_voltage_step", "set_manual_current_step"}
                   /\ call.args[2] > max)
                      => call.exc = "TenmaError" /\ LogUnchanged

\* C26 as claimed: for every status byte b the get_status of the classes
\* with three channels returns a Mode with ch1_mode C.V iff bit 0, ch2_mode
\* C.V iff bit 1, out1_enabled iff bit 6, out2_enabled iff bit 7, and
\* beep_enabled and lock_enabled false whatever bits 4 and 5 are; the
\* get_status of the other classes never reports out2_enabled
C26_ThreeChannelStatusDecodesEveryByte ==
    (call.op = "get_status" /\ Len(call.replies[1]) >= 1)
        => LET b == call.replies[1][1]
               Bit(i) == (b \div Pow2(i)) % 2 = 1
           IN  /\ self_cls \in Tenma7213320Family
                      => /\ call.exc = ""
                         /\ call.ret.ch1_mode = (IF Bit(0) THEN "C.V" ELSE "C.C")
                         /\ call.ret.ch2_mode = (IF Bit(1) THEN "C.V" ELSE "C.C")
                         /\ call.ret.out1_enabled = Bit(6)
                         /\ call.ret.out2_enabled = Bit(7)
                         /\ call.ret.beep_enabled = FALSE
                         /\ call.ret.lock_enabled = FALSE
               /\ (self_cls \notin Tenma7213320Family /\ call.exc = "")
                      => call.ret.out2_enabled = FALSE

\* the same for the bytes whose tracking bits are not both set
C26_ThreeChannelStatusDecodesOtherBytes ==
    (/\ call.op = "get_status" /\ Len(call.replies[1]) >= 1
     /\ TrackingField(call.replies[1][1]) # 3)
        => LET b == call.replies[1][1]
               Bit(i) == (b \div Pow2(i)) % 2 = 1
           IN  /\ self_cls \in Tenma7213320Family
                      => call.ret = Mode(IF Bit(0) THEN "C.V" ELSE "C.C",
                                         IF Bit(1) THEN "C.V" ELSE "C.C",
                                         TrackingField(b), FALSE, FALSE, Bit(6), Bit(7))
               /\ self_cls \notin Tenma7213320Family => call.ret.out2_enabled = FALSE

\* C27 as claimed: get_status takes exactly one byte, the status byte, from
\* what the device has sent, while a numeric read takes all of it
C27_StatusReadsOneByte ==
    (call.op \in ReadingOps /\ CallReads # <<>> /\ call.replies[1] # <<>>)
        => /\ Len(CallReads) = 1
           /\ call.op = "get_status" => Len(CallReads[1].data) = 1
           /\ call.op # "get_status" => CallReads[1].data = call.replies[1]

\* C27: get_status, like the numeric reads, takes everything the device has
\* sent by the time of the read, so that nothing of it is left for the next
\* call; it decodes the first byte and drops the rest.
C27_EveryReadTakesAll ==
    (call.op \in ReadingOps /\ CallReads # <<>>)
        => /\ Len(CallReads) = 1
           /\ CallReads[1].data = call.replies[1]
           /\ (call.op = "get_status" /\ call.replies[1] # <<>>)
                  => LET alone == get_status(self_cls, <<call.replies[1][1]>>)
                     IN  call.exc = alone.exc /\ call.ret = alone.ret

\* a status of two bytes was read whole and its first byte decoded
C27_Witness ==
    /\ call.op = "get_status"
    /\ call.replies[1] = <<65, 10>>
    /\ CallReads[1].data = <<65, 10>>
    /\ call.exc = ""
    /\ call.ret.out1_enabled
    /\ call.ret.ch1_mode = "C.V"

\* the steps the command line asks for, in the order of main()
RequestedSteps(a) == SelectSeq(CliSteps, LAMBDA step : Requested(a, step))

\* main() has left its `try` block because a step raised
Failed == cli.caught \/ cli.raised \notin {"", "SerialException"}

\* what holds in every state of a run of main()
CloseOnceAtTheEnd ==
    cli.pc # "none"
        => /\ cli.pc # "exit" => cli.closes = 0
           /\ cli.pc = "exit" => cli.closes = (IF cli.t THEN 1 ELSE 0)
           /\ (cli.pc = "exit" /\ cli.t) => \A i \in 1..Len(handles) : ~handles[i].open
           /\ cli.ran = SubSeq(RequestedSteps(cli.args), 1, Len(cli.ran))
           /\ (cli.pc = "exit" /\ ~Failed /\ cli.t) => cli.ran = RequestedSteps(cli.args)
           /\ Failed => cli.pc \in {"finally", "exit"}

\* once a step has raised, nothing more is asked of the device
NothingAfterFailure == Failed => (cli.ran' = cli.ran /\ ser_io' = ser_io)

\* C28: once main() has its driver it closes it exactly once, in the
\* `finally` block and not before, however the `try` block ends: after
\* every requested step, after a TenmaError (which it prints), or after a
\* NotImplementedError, a ValueError or an IndexError (which it lets
\* through).  The steps it ran are the requested ones, in order, up to the
\* one that raised, and after that one it runs no other.
C28_MainClosesOnceOnEveryPath == []CloseOnceAtTheEnd /\ [][NothingAfterFailure]_vars

\* main() ended after a TenmaError in its first step out of two, the driver
\* closed
C28_Witness ==
    /\ cli.pc = "exit"
    /\ cli.caught
    /\ cli.closes = 1
    /\ Len(cli.ran) = 1
    /\ Len(RequestedSteps(cli.args)) = 2
    /\ ~handles[self_ser].open

\* main() ended after an exception it does not catch, the driver closed
C28_WitnessUncaught ==
    /\ cli.pc = "exit"
    /\ cli.raised \in {"NotImplementedError", "ValueError", "IndexError"}
    /\ cli.closes = 1

=============================================================================
